---- MODULE Spec2Model ----
(***************************************************************************)
(* Icebreaker core: the permission engine (core/permissions.py over the    *)
(* policy tables of core/config.py) and the Snowflake connection manager   *)
(* (core/connection.py).                                                   *)
(*                                                                         *)
(* The specifications share the variables:                                 *)
(*   Spec      the tool-permission engine under policy changes              *)
(*   SpecSql   check_sql_permission over statements, roles and SQL tables   *)
(*   SpecConn  threads using get_connection / close_connection              *)
(*   SpecGate  one thread running statements through execute_safe_query     *)
(*   SpecAuth  one thread over every authentication configuration           *)
(*   SpecLock  the connection handlers one statement group at a time        *)
(*   SpecOps   one thread using every operation of the manager             *)
(*   SpecCtx   validate_operation_context over operation contexts           *)
(*   SpecInst  threads calling get_instance, one step at a time             *)
(*   SpecNest  SpecLock with calls made from inside a get_connection block  *)
(*   SpecEngine the three decision methods of the permission engine         *)
(*   SpecFixed check_tool_permission over policy tables that stay fixed     *)
(*   SpecKeys  check_tool_permission over names that contain ':'            *)
(*   SpecRace  check_tool_permission in threads beside a policy reload      *)
(* Each specification parks the variables of the others at a fixed value.  *)
(***************************************************************************)
EXTENDS Integers, Sequences, FiniteSets, TLC

VARIABLES
    safe_mode,          \* IcebreakerConfig.safe_mode
    services,           \* the four ServiceConfig objects: [enabled, tools]
    roles,              \* IcebreakerConfig.roles: role name -> RoleConfig
    tool_permissions,   \* IcebreakerConfig.tool_permissions: tool -> ToolPermission
    sql_permissions,    \* IcebreakerConfig.sql_permissions
    permission_cache,   \* PermissionManager._permission_cache: key -> bool
    call,               \* the last permission call: what was asked and how it was answered
    result,             \* the PermissionResult that call returned
    granted,            \* history: pairs answered allowed = true since the last clear
    fresh_allowed,      \* history: pairs a fresh evaluation allowed since the last clear
    cleared_pairs,      \* history: pairs dropped by the last clear and not asked since
    mgr,                \* SnowflakeConnectionManager's fields
    lock_holder,        \* owner of _connection_lock (NoThread when free)
    thr,                \* per thread: position, what it was handed, the statement it runs
    backend,            \* the Snowflake side: connects made, connections open/closed
    now,                \* the clock datetime.now() reads, in hours
    hist,               \* history: what has disturbed the manager so far
    cls                 \* SnowflakeConnectionManager's class attributes: _instance, _lock

policy_vars == <<safe_mode, services, roles, tool_permissions>>
perm_vars == <<permission_cache, call, result, granted, fresh_allowed, cleared_pairs>>
conn_vars == <<mgr, lock_holder, thr, backend, now, hist, cls>>
vars == <<safe_mode, services, roles, tool_permissions, sql_permissions,
          permission_cache, call, result, granted, fresh_allowed, cleared_pairs,
          mgr, lock_holder, thr, backend, now, hist, cls>>

----------------------------------------------------------------------------
(* Python helpers *)

\* x in xs, for a Python list xs
Contains(xs, x) == \E i \in DOMAIN xs : xs[i] = x

\* d.get(k, default), for a dict d
DictGet(d, k, default) == IF k \in DOMAIN d THEN d[k] ELSE default

\* d[k] = v, for a dict d
DictSet(d, k, v) == [x \in (DOMAIN d) \cup {k} |-> IF x = k THEN v ELSE d[x]]

EmptyDict == [x \in {} |-> TRUE]

----------------------------------------------------------------------------
(* The policy tables: core/config.py *)

ServiceNames == {"discovery", "operational", "engineering", "intelligence"}

\* ServiceConfig(): enabled, no tools
DefaultServiceConfig == [enabled |-> TRUE, tools |-> << >>]

\* ToolPermission(): no required roles, no flags
DefaultToolPermission ==
    [required_roles |-> << >>, requires_confirmation |-> FALSE,
     requires_approval |-> FALSE, blocked_in_safe_mode |-> FALSE]

\* is_tool_enabled with a slip: the service's enabled flag is not read
is_tool_enabled_flag_unread(tool_name) ==
    \E s \in ServiceNames :
        \/ services[s].tools = <<"*">>
        \/ Contains(services[s].tools, tool_name)

\* IcebreakerConfig.is_tool_enabled
is_tool_enabled(tool_name) ==
    \E s \in ServiceNames :
        /\ services[s].enabled
        /\ \/ services[s].tools = <<"*">>
           \/ Contains(services[s].tools, tool_name)

\* check_permission with a slip: any ToolPermission entry grants, required_roles unread
check_permission_any_entry(tool_name, user_role) ==
    \/ /\ user_role \in DOMAIN roles
       /\ \/ Contains(roles[user_role].allowed_tools, "*")
          \/ Contains(roles[user_role].allowed_tools, tool_name)
    \/ tool_name \in DOMAIN tool_permissions

\* IcebreakerConfig.check_permission
check_permission(tool_name, user_role) ==
    \/ /\ user_role \in DOMAIN roles
       /\ \/ Contains(roles[user_role].allowed_tools, "*")
          \/ Contains(roles[user_role].allowed_tools, tool_name)
    \/ /\ tool_name \in DOMAIN tool_permissions
       /\ \/ tool_permissions[tool_name].required_roles = << >>
          \/ Contains(tool_permissions[tool_name].required_roles, user_role)

\* is_safe_for_operation with a slip: approval tested before confirmation
is_safe_for_operation_approval_first(tool_name) ==
    LET tool_permission == DictGet(tool_permissions, tool_name, DefaultToolPermission) IN
    IF ~safe_mode
    THEN [allowed |-> TRUE, reason |-> "Safe mode is disabled"]
    ELSE IF tool_permission.blocked_in_safe_mode
    THEN [allowed |-> FALSE,
          reason |-> "Tool '" \o tool_name \o "' is blocked in safe mode"]
    ELSE IF tool_permission.requires_approval
    THEN [allowed |-> FALSE, requires_approval |-> TRUE,
          reason |-> "Tool '" \o tool_name \o "' requires approval workflow"]
    ELSE IF tool_permission.requires_confirmation
    THEN [allowed |-> FALSE, requires_confirmation |-> TRUE,
          reason |-> "Tool '" \o tool_name \o "' requires user confirmation"]
    ELSE [allowed |-> TRUE, reason |-> "Operation is allowed"]

\* is_safe_for_operation with a slip: confirmation tested before the safe-mode block
is_safe_for_operation_confirmation_before_block(tool_name) ==
    LET tool_permission == DictGet(tool_permissions, tool_name, DefaultToolPermission) IN
    IF ~safe_mode
    THEN [allowed |-> TRUE, reason |-> "Safe mode is disabled"]
    ELSE IF tool_permission.requires_confirmation
    THEN [allowed |-> FALSE, requires_confirmation |-> TRUE,
          reason |-> "Tool '" \o tool_name \o "' requires user confirmation"]
    ELSE IF tool_permission.blocked_in_safe_mode
    THEN [allowed |-> FALSE,
          reason |-> "Tool '" \o tool_name \o "' is blocked in safe mode"]
    ELSE IF tool_permission.requires_approval
    THEN [allowed |-> FALSE, requires_approval |-> TRUE,
          reason |-> "Tool '" \o tool_name \o "' requires approval workflow"]
    ELSE [allowed |-> TRUE, reason |-> "Operation is allowed"]

\* is_safe_for_operation with a slip: the confirmation denial also carries the
\* tool's approval flag
is_safe_for_operation_flags_together(tool_name) ==
    LET tool_permission == DictGet(tool_permissions, tool_name, DefaultToolPermission) IN
    IF ~safe_mode
    THEN [allowed |-> TRUE, reason |-> "Safe mode is disabled"]
    ELSE IF tool_permission.blocked_in_safe_mode
    THEN [allowed |-> FALSE,
          reason |-> "Tool '" \o tool_name \o "' is blocked in safe mode"]
    ELSE IF tool_permission.requires_confirmation
    THEN [allowed |-> FALSE, requires_confirmation |-> TRUE,
          requires_approval |-> tool_permission.requires_approval,
          reason |-> "Tool '" \o tool_name \o "' requires user confirmation"]
    ELSE IF tool_permission.requires_approval
    THEN [allowed |-> FALSE, requires_approval |-> TRUE,
          reason |-> "Tool '" \o tool_name \o "' requires approval workflow"]
    ELSE [allowed |-> TRUE, reason |-> "Operation is allowed"]

\* IcebreakerConfig.is_safe_for_operation: the dict it returns, with the keys it sets
is_safe_for_operation(tool_name) ==
    LET tool_permission == DictGet(tool_permissions, tool_name, DefaultToolPermission) IN
    IF ~safe_mode
    THEN [allowed |-> TRUE, reason |-> "Safe mode is disabled"]
    ELSE IF tool_permission.blocked_in_safe_mode
    THEN [allowed |-> FALSE,
          reason |-> "Tool '" \o tool_name \o "' is blocked in safe mode"]
    ELSE IF tool_permission.requires_confirmation
    THEN [allowed |-> FALSE, requires_confirmation |-> TRUE,
          reason |-> "Tool '" \o tool_name \o "' requires user confirmation"]
    ELSE IF tool_permission.requires_approval
    THEN [allowed |-> FALSE, requires_approval |-> TRUE,
          reason |-> "Tool '" \o tool_name \o "' requires approval workflow"]
    ELSE [allowed |-> TRUE, reason |-> "Operation is allowed"]

----------------------------------------------------------------------------
(* The permission engine: core/permissions.py *)

\* PermissionResult.__init__
PermissionResult(allowed, reason, requires_confirmation, requires_approval) ==
    [allowed |-> allowed, reason |-> reason,
     requires_confirmation |-> requires_confirmation,
     requires_approval |-> requires_approval]

\* cache_key with a slip: the role is left out of the key
cache_key_tool_only(tool_name, user_role) == tool_name

\* cache_key = f"{tool_name}:{user_role}"
cache_key(tool_name, user_role) == tool_name \o ":" \o user_role

\* the cache lookup that opens check_tool_permission
cache_hit(tool_name, user_role) ==
    /\ cache_key(tool_name, user_role) \in DOMAIN permission_cache
    /\ permission_cache[cache_key(tool_name, user_role)]

CachedReason(tool_name, user_role) ==
    "Cached permission for role '" \o user_role \o "' on tool '" \o tool_name \o "'"

NotEnabledReason(tool_name) ==
    "Tool '" \o tool_name \o "' is not enabled in configuration"

RoleDeniedReason(tool_name, user_role) ==
    "Role '" \o user_role \o "' does not have permission for tool '" \o tool_name \o "'"

RoleAllowedReason(tool_name, user_role) ==
    "Role '" \o user_role \o "' has permission for tool '" \o tool_name \o "'"

\* evaluate_tool_permission with a slip: the role check runs before the enabled check
evaluate_tool_permission_role_first(tool_name, user_role) ==
    LET safety_result == is_safe_for_operation(tool_name) IN
    IF ~check_permission(tool_name, user_role)
    THEN [result |-> PermissionResult(FALSE, RoleDeniedReason(tool_name, user_role),
                                      FALSE, FALSE),
          cache |-> permission_cache]
    ELSE IF ~is_tool_enabled(tool_name)
    THEN [result |-> PermissionResult(FALSE, NotEnabledReason(tool_name), FALSE, FALSE),
          cache |-> permission_cache]
    ELSE IF ~safety_result.allowed
    THEN [result |-> PermissionResult(FALSE, safety_result.reason,
                        DictGet(safety_result, "requires_confirmation", FALSE),
                        DictGet(safety_result, "requires_approval", FALSE)),
          cache |-> permission_cache]
    ELSE [result |-> PermissionResult(TRUE, RoleAllowedReason(tool_name, user_role),
                                      FALSE, FALSE),
          cache |-> DictSet(permission_cache, cache_key(tool_name, user_role), TRUE)]

\* evaluate_tool_permission with a slip: a safety denial is written to the cache too
evaluate_tool_permission_caches_denial(tool_name, user_role) ==
    LET safety_result == is_safe_for_operation(tool_name) IN
    IF ~is_tool_enabled(tool_name)
    THEN [result |-> PermissionResult(FALSE, NotEnabledReason(tool_name), FALSE, FALSE),
          cache |-> permission_cache]
    ELSE IF ~check_permission(tool_name, user_role)
    THEN [result |-> PermissionResult(FALSE, RoleDeniedReason(tool_name, user_role),
                                      FALSE, FALSE),
          cache |-> permission_cache]
    ELSE IF ~safety_result.allowed
    THEN [result |-> PermissionResult(FALSE, safety_result.reason,
                        DictGet(safety_result, "requires_confirmation", FALSE),
                        DictGet(safety_result, "requires_approval", FALSE)),
          cache |-> DictSet(permission_cache, cache_key(tool_name, user_role), FALSE)]
    ELSE [result |-> PermissionResult(TRUE, RoleAllowedReason(tool_name, user_role),
                                      FALSE, FALSE),
          cache |-> DictSet(permission_cache, cache_key(tool_name, user_role), TRUE)]

\* check_tool_permission after the cache lookup: the decision and the cache it leaves
evaluate_tool_permission(tool_name, user_role) ==
    LET safety_result == is_safe_for_operation(tool_name) IN
    IF ~is_tool_enabled(tool_name)
    THEN [result |-> PermissionResult(FALSE, NotEnabledReason(tool_name), FALSE, FALSE),
          cache |-> permission_cache]
    ELSE IF ~check_permission(tool_name, user_role)
    THEN [result |-> PermissionResult(FALSE, RoleDeniedReason(tool_name, user_role),
                                      FALSE, FALSE),
          cache |-> permission_cache]
    ELSE IF ~safety_result.allowed
    THEN [result |-> PermissionResult(FALSE, safety_result.reason,
                        DictGet(safety_result, "requires_confirmation", FALSE),
                        DictGet(safety_result, "requires_approval", FALSE)),
          cache |-> permission_cache]
    ELSE [result |-> PermissionResult(TRUE, RoleAllowedReason(tool_name, user_role),
                                      FALSE, FALSE),
          cache |-> DictSet(permission_cache, cache_key(tool_name, user_role), TRUE)]

\* check_tool_permission with a slip: the cache is consulted after the enabled check
check_tool_permission_late_cache(tool_name, user_role) ==
    IF ~is_tool_enabled(tool_name)
    THEN [result |-> PermissionResult(FALSE, NotEnabledReason(tool_name), FALSE, FALSE),
          cache |-> permission_cache]
    ELSE IF cache_hit(tool_name, user_role)
    THEN [result |-> PermissionResult(TRUE, CachedReason(tool_name, user_role),
                                      FALSE, FALSE),
          cache |-> permission_cache]
    ELSE evaluate_tool_permission(tool_name, user_role)

\* PermissionManager.check_tool_permission
check_tool_permission(tool_name, user_role) ==
    IF cache_hit(tool_name, user_role)
    THEN [result |-> PermissionResult(TRUE, CachedReason(tool_name, user_role),
                                      FALSE, FALSE),
          cache |-> permission_cache]
    ELSE evaluate_tool_permission(tool_name, user_role)

\* clear_permission_cache with a slip: the entries are kept
clear_permission_cache_keeps_entries == permission_cache

\* PermissionManager.clear_permission_cache
clear_permission_cache == EmptyDict

----------------------------------------------------------------------------
(* The tool-permission engine as a state machine: callers ask, the          *)
(* configuration layer changes the policy tables, the cache is cleared.     *)

ToolNames == {"list_databases", "drop_database"}
RoleNames == {"analyst", "intern"}
Pairs == ToolNames \X RoleNames

\* the values the configuration layer assigns
ServiceChoices ==
    {[enabled |-> TRUE, tools |-> <<"list_databases", "drop_database">>],
     [enabled |-> FALSE, tools |-> <<"list_databases", "drop_database">>],
     [enabled |-> TRUE, tools |-> <<"list_databases">>],
     [enabled |-> TRUE, tools |-> <<"*">>]}

RoleChoices ==
    {[allowed_tools |-> at, allowed_operations |-> <<"READ">>] :
        at \in {<<"list_databases">>, <<"drop_database">>, <<"*">>}}

FlagChoices == {<<FALSE, FALSE, FALSE>>, <<TRUE, FALSE, FALSE>>, <<FALSE, TRUE, FALSE>>,
                <<FALSE, FALSE, TRUE>>, <<FALSE, TRUE, TRUE>>, <<TRUE, TRUE, TRUE>>}

ToolPermissionChoices ==
    {[required_roles |-> rr, blocked_in_safe_mode |-> f[1],
      requires_confirmation |-> f[2], requires_approval |-> f[3]] :
        rr \in {<< >>, <<"intern">>}, f \in FlagChoices}

NoResult == PermissionResult(FALSE, "", FALSE, FALSE)

InitPolicy ==
    /\ safe_mode = TRUE
    /\ services = [s \in ServiceNames |-> DefaultServiceConfig]
    /\ roles = [r \in {"analyst"} |->
                  [allowed_tools |-> <<"list_databases">>, allowed_operations |-> <<"READ">>]]
    /\ tool_permissions = EmptyDict

InitPerm ==
    /\ permission_cache = EmptyDict
    /\ call = [op |-> "init"]
    /\ result = NoResult
    /\ granted = {}
    /\ fresh_allowed = {}
    /\ cleared_pairs = {}

\* a caller asks check_tool_permission(tool_name, user_role)
CheckTool(tool_name, user_role) ==
    LET r == check_tool_permission(tool_name, user_role)
        fresh == ~cache_hit(tool_name, user_role)
    IN
    /\ result' = r.result
    /\ permission_cache' = r.cache
    /\ call' = [op |-> "check_tool", tool |-> tool_name, role |-> user_role,
                fresh |-> fresh,
                cleared |-> <<tool_name, user_role>> \in cleared_pairs]
    /\ granted' = IF r.result.allowed
                  THEN granted \cup {<<tool_name, user_role>>} ELSE granted
    /\ fresh_allowed' = IF fresh /\ r.result.allowed
                        THEN fresh_allowed \cup {<<tool_name, user_role>>}
                        ELSE fresh_allowed
    /\ cleared_pairs' = cleared_pairs \ {<<tool_name, user_role>>}
    /\ UNCHANGED <<policy_vars, sql_permissions, conn_vars>>

\* a caller asks clear_permission_cache()
ClearCache ==
    /\ permission_cache' = clear_permission_cache
    /\ call' = [op |-> "clear"]
    /\ result' = NoResult
    /\ granted' = {}
    /\ fresh_allowed' = {}
    /\ cleared_pairs' = cleared_pairs \cup
           {p \in Pairs : cache_key(p[1], p[2]) \in DOMAIN permission_cache}
    /\ UNCHANGED <<policy_vars, sql_permissions, conn_vars>>

PolicyStep ==
    /\ call' = [op |-> "policy"]
    /\ result' = NoResult
    /\ UNCHANGED <<permission_cache, granted, fresh_allowed, cleared_pairs,
                   sql_permissions, conn_vars>>

\* config.safe_mode = b
SetSafeMode(b) ==
    /\ b # safe_mode
    /\ safe_mode' = b
    /\ UNCHANGED <<services, roles, tool_permissions>>
    /\ PolicyStep

\* config.discovery = ServiceConfig(...)
SetService(s, cfg) ==
    /\ cfg # services[s]
    /\ services' = [services EXCEPT ![s] = cfg]
    /\ UNCHANGED <<safe_mode, roles, tool_permissions>>
    /\ PolicyStep

\* config.roles[role_name] = RoleConfig(...)
SetRole(r, rc) ==
    /\ IF r \in DOMAIN roles THEN roles[r] # rc ELSE TRUE
    /\ roles' = DictSet(roles, r, rc)
    /\ UNCHANGED <<safe_mode, services, tool_permissions>>
    /\ PolicyStep

\* a reloaded role table without the role
RemoveRole(r) ==
    /\ r \in DOMAIN roles
    /\ roles' = [x \in (DOMAIN roles) \ {r} |-> roles[x]]
    /\ UNCHANGED <<safe_mode, services, tool_permissions>>
    /\ PolicyStep

\* config.tool_permissions[tool_name] = ToolPermission(...)
SetToolPermission(t, tp) ==
    /\ IF t \in DOMAIN tool_permissions THEN tool_permissions[t] # tp ELSE TRUE
    /\ tool_permissions' = DictSet(tool_permissions, t, tp)
    /\ UNCHANGED <<safe_mode, services, roles>>
    /\ PolicyStep

\* a reloaded tool-policy table without the tool
RemoveToolPermission(t) ==
    /\ t \in DOMAIN tool_permissions
    /\ tool_permissions' = [x \in (DOMAIN tool_permissions) \ {t} |-> tool_permissions[x]]
    /\ UNCHANGED <<safe_mode, services, roles>>
    /\ PolicyStep

\* the variables of the other specifications, parked
ParkedSql == sql_permissions = [allowed |-> << >>, administrative_allowed |-> << >>,
                                disallowed |-> << >>]

ParkedConn ==
    /\ mgr = [connection |-> 0]
    /\ lock_holder = 0
    /\ thr = << >>
    /\ backend = [attempts |-> 0]
    /\ now = 0
    /\ hist = [backend_failed |-> FALSE]
    /\ cls = [instance |-> 0]

Init == InitPolicy /\ InitPerm /\ ParkedSql /\ ParkedConn

Next ==
    \/ \E t \in ToolNames, r \in RoleNames : CheckTool(t, r)
    \/ ClearCache
    \/ \E b \in BOOLEAN : SetSafeMode(b)
    \/ \E cfg \in ServiceChoices : SetService("discovery", cfg)
    \/ \E rc \in RoleChoices : SetRole("analyst", rc)
    \/ RemoveRole("analyst")
    \/ \E tp \in ToolPermissionChoices : SetToolPermission("drop_database", tp)
    \/ RemoveToolPermission("drop_database")

Spec == Init /\ [][Next]_vars

----------------------------------------------------------------------------
(* Properties of the tool-permission engine, checked under Spec *)

\* the last step was a check_tool_permission call that found no cached entry
FreshCall == call.op = "check_tool" /\ call.fresh

\* the role table gives the role no access to the tool: the role is absent, or its
\* allowed_tools neither lists the tool nor is the wildcard
RoleTableLacks(tool_name, user_role) ==
    \/ user_role \notin DOMAIN roles
    \/ /\ \A i \in DOMAIN roles[user_role].allowed_tools :
             roles[user_role].allowed_tools[i] \notin {tool_name, "*"}

\* the tool has a ToolPermission entry that names no roles, or names this one
ToolPolicyGrants(tool_name, user_role) ==
    /\ tool_name \in DOMAIN tool_permissions
    /\ \/ Len(tool_permissions[tool_name].required_roles) = 0
       \/ \E i \in DOMAIN tool_permissions[tool_name].required_roles :
             tool_permissions[tool_name].required_roles[i] = user_role

\* some enabled service lists the tool or is the wildcard list
ToolEnabled(tool_name) ==
    \E s \in ServiceNames :
        services[s].enabled /\
        (services[s].tools = <<"*">> \/
         \E i \in DOMAIN services[s].tools : services[s].tools[i] = tool_name)

RoleDenied == ~result.allowed /\ result.reason = RoleDeniedReason(call.tool, call.role)

PassedEnabledAndRole ==
    /\ FreshCall /\ ToolEnabled(call.tool)
    /\ ~RoleTableLacks(call.tool, call.role) \/ ToolPolicyGrants(call.tool, call.role)

ToolPolicy(tool_name) ==
    IF tool_name \in DOMAIN tool_permissions THEN tool_permissions[tool_name]
    ELSE DefaultToolPermission

BlockedInSafeMode == safe_mode /\ ToolPolicy(call.tool).blocked_in_safe_mode

ConfirmationOrApprovalDenial ==
    /\ ToolPolicy(call.tool).requires_confirmation
          => (~result.allowed /\ result.requires_confirmation)
    /\ (~ToolPolicy(call.tool).requires_confirmation /\ ToolPolicy(call.tool).requires_approval)
          => (~result.allowed /\ result.requires_approval)

\* C6 as claimed: past the enabled and role checks and not blocked in safe mode,
\* requires_confirmation denies with requires_confirmation = true, otherwise
\* requires_approval denies with requires_approval = true, in either safe-mode setting.
C6_AsClaimed ==
    (PassedEnabledAndRole /\ ~BlockedInSafeMode) => ConfirmationOrApprovalDenial

\* C6, amended: that holds when safe mode is enabled; with safe mode disabled the
\* call is allowed with both flags false, whatever the tool's ToolPermission says.
C6_ConfirmationApprovalOnlyInSafeMode ==
    /\ (PassedEnabledAndRole /\ safe_mode /\ ~BlockedInSafeMode)
          => ConfirmationOrApprovalDenial
    /\ (PassedEnabledAndRole /\ ~safe_mode)
          => (result.allowed /\ ~result.requires_confirmation /\ ~result.requires_approval)

\* C6 witness: safe mode on, the tool needs approval but no confirmation, and the
\* call was denied with requires_approval
C6_Witness ==
    /\ PassedEnabledAndRole /\ safe_mode /\ ~BlockedInSafeMode
    /\ ~ToolPolicy(call.tool).requires_confirmation
    /\ ToolPolicy(call.tool).requires_approval
    /\ ~result.allowed /\ result.requires_approval

\* C7: a fresh check_tool_permission reports the first failing step in the order
\* enabled, role, safety, with that step's reason and flags.
C7_FirstFailingStepReported ==
    FreshCall =>
        LET safety == is_safe_for_operation(call.tool) IN
        IF ~ToolEnabled(call.tool)
        THEN result = PermissionResult(FALSE, NotEnabledReason(call.tool), FALSE, FALSE)
        ELSE IF RoleTableLacks(call.tool, call.role) /\ ~ToolPolicyGrants(call.tool, call.role)
        THEN result = PermissionResult(FALSE, RoleDeniedReason(call.tool, call.role),
                                       FALSE, FALSE)
        ELSE IF ~safety.allowed
        THEN /\ ~result.allowed
             /\ result.reason = safety.reason
             /\ result.requires_confirmation = ("requires_confirmation" \in DOMAIN safety)
             /\ result.requires_approval = ("requires_approval" \in DOMAIN safety)
        ELSE result.allowed

\* C7 witness: a request failing all three steps at once, reported as not enabled
C7_Witness ==
    /\ FreshCall
    /\ ~ToolEnabled(call.tool)
    /\ RoleTableLacks(call.tool, call.role) /\ ~ToolPolicyGrants(call.tool, call.role)
    /\ BlockedInSafeMode
    /\ result.reason = NotEnabledReason(call.tool)

\* C8: a pair answered allowed = true since the last clear is answered allowed = true
\* by every later call, whatever the policy tables have become.
C8_GrantSticksUntilClear ==
    (call.op = "check_tool" /\ <<call.tool, call.role>> \in granted) => result.allowed

\* C8 witness: a cached grant returned although the policy now denies the pair
C8_Witness ==
    /\ call.op = "check_tool" /\ ~call.fresh /\ result.allowed
    /\ \/ ~ToolEnabled(call.tool)
       \/ RoleTableLacks(call.tool, call.role) /\ ~ToolPolicyGrants(call.tool, call.role)
       \/ BlockedInSafeMode

\* C9: the first check of a pair that the last clear dropped finds no cached entry
\* and is decided by the policy tables as they are now.
C9_ClearedPairReevaluated ==
    (call.op = "check_tool" /\ call.cleared)
        => /\ call.fresh
           /\ result = evaluate_tool_permission(call.tool, call.role).result

\* C9 witness: a pair cached before the clear, its tool since removed from the role,
\* asked again and denied with the role reason
C9_Witness ==
    /\ call.op = "check_tool" /\ call.cleared
    /\ call.tool = "list_databases" /\ call.role \in DOMAIN roles
    /\ RoleTableLacks(call.tool, call.role)
    /\ RoleDenied

\* C10: the cache holds exactly the pairs a fresh evaluation allowed since the last
\* clear, each with the value true.
C10_CacheHoldsOnlyFreshGrants ==
    /\ \A k \in DOMAIN permission_cache : permission_cache[k] = TRUE
    /\ DOMAIN permission_cache = {cache_key(p[1], p[2]) : p \in fresh_allowed}

\* C10 witness: a denial returned while the cache holds earlier grants
C10_Witness ==
    /\ FreshCall /\ ~result.allowed
    /\ fresh_allowed # {}
    /\ DOMAIN permission_cache = {cache_key(p[1], p[2]) : p \in fresh_allowed}

\* the tool's safe-mode block decided the call: denied with the blocked reason and
\* neither flag raised
BlockedDenial ==
    /\ ~result.allowed
    /\ result.reason = "Tool '" \o call.tool \o "' is blocked in safe mode"
    /\ ~result.requires_confirmation /\ ~result.requires_approval

\* C25: in safe mode, past the enabled and role checks, blocked_in_safe_mode comes
\* first (denied, both flags false, whatever the other settings), then
\* requires_confirmation (a tool asking for both confirmation and approval is denied
\* with requires_confirmation = true and requires_approval = false), then
\* requires_approval; with safe mode disabled a blocked tool is not denied.
C25_SafetyPrecedence ==
    /\ (PassedEnabledAndRole /\ safe_mode /\ ToolPolicy(call.tool).blocked_in_safe_mode)
          => BlockedDenial
    /\ (PassedEnabledAndRole /\ safe_mode /\ ~ToolPolicy(call.tool).blocked_in_safe_mode
            /\ ToolPolicy(call.tool).requires_confirmation)
          => (~result.allowed /\ result.requires_confirmation /\ ~result.requires_approval)
    /\ (PassedEnabledAndRole /\ safe_mode /\ ~ToolPolicy(call.tool).blocked_in_safe_mode
            /\ ~ToolPolicy(call.tool).requires_confirmation
            /\ ToolPolicy(call.tool).requires_approval)
          => (~result.allowed /\ ~result.requires_confirmation /\ result.requires_approval)
    /\ (PassedEnabledAndRole /\ ~safe_mode /\ ToolPolicy(call.tool).blocked_in_safe_mode)
          => result.allowed

\* C25 witness: safe mode on, the tool is blocked and also asks for confirmation and
\* approval, and the call was denied as blocked with both flags false
C25_Witness ==
    /\ PassedEnabledAndRole /\ safe_mode
    /\ ToolPolicy(call.tool).blocked_in_safe_mode
    /\ ToolPolicy(call.tool).requires_confirmation
    /\ ToolPolicy(call.tool).requires_approval
    /\ BlockedDenial

\* some enabled service names the tool in its tools list
ListedInEnabledService(tool_name) ==
    \E s \in ServiceNames :
        services[s].enabled /\
        \E i \in DOMAIN services[s].tools : services[s].tools[i] = tool_name

\* some enabled service has the wildcard tools list ["*"]
EnabledWildcardService ==
    \E s \in ServiceNames : services[s].enabled /\ services[s].tools = <<"*">>

NotEnabledDenial == ~result.allowed /\ result.reason = NotEnabledReason(call.tool)

----------------------------------------------------------------------------
(* SQL statement permissions: PermissionManager.check_sql_permission.       *)
(* A str is a sequence of one-character strings.                            *)

MaxStmtLen == 3

Chars == {"x", "X", "y", "Y", " "}

LowerLetters == <<"a", "b", "c", "d", "e", "f", "g", "h", "i", "j", "k", "l", "m",
                  "n", "o", "p", "q", "r", "s", "t", "u", "v", "w", "x", "y", "z">>

UpperLetters == <<"A", "B", "C", "D", "E", "F", "G", "H", "I", "J", "K", "L", "M",
                  "N", "O", "P", "Q", "R", "S", "T", "U", "V", "W", "X", "Y", "Z">>

\* str.upper(), one character
UpperChar(c) ==
    IF \E i \in DOMAIN LowerLetters : LowerLetters[i] = c
    THEN UpperLetters[CHOOSE i \in DOMAIN LowerLetters : LowerLetters[i] = c]
    ELSE c

\* str.upper()
Upper(str) == [i \in DOMAIN str |-> UpperChar(str[i])]

\* str.strip(): leading and trailing whitespace removed
RECURSIVE LStrip(_)
LStrip(str) == IF str # << >> /\ Head(str) = " " THEN LStrip(Tail(str)) ELSE str

RECURSIVE RStrip(_)
RStrip(str) ==
    IF str # << >> /\ str[Len(str)] = " " THEN RStrip(SubSeq(str, 1, Len(str) - 1)) ELSE str

Strip(str) == RStrip(LStrip(str))

\* str.startswith(prefix)
StartsWith(str, prefix) ==
    /\ Len(prefix) <= Len(str)
    /\ SubSeq(str, 1, Len(prefix)) = prefix

\* the text of a str, as it appears inside an f-string
RECURSIVE Text(_)
Text(str) == IF str = << >> THEN "" ELSE Head(str) \o Text(Tail(str))

\* the for loops of check_sql_permission: the index of the first pattern the
\* statement starts with, 0 when the loop falls through
RECURSIVE FirstMatchFrom(_, _, _)
FirstMatchFrom(patterns, sql_upper, i) ==
    IF i > Len(patterns) THEN 0
    ELSE IF StartsWith(sql_upper, Upper(patterns[i])) THEN i
    ELSE FirstMatchFrom(patterns, sql_upper, i + 1)

FirstMatch(patterns, sql_upper) == FirstMatchFrom(patterns, sql_upper, 1)

\* _has_operation_permission with a slip: WAREHOUSE_MANAGE stands in for ADMIN in the
\* admin sub-type check
has_operation_permission_manage_is_admin(user_role, operation) ==
    IF user_role \notin DOMAIN roles THEN FALSE
    ELSE IF Contains(roles[user_role].allowed_operations, "*") THEN TRUE
    ELSE IF Contains(roles[user_role].allowed_operations, operation) THEN TRUE
    ELSE IF /\ operation \in {"ADMIN", "WAREHOUSE_MANAGE", "USER_MANAGE_ADMIN",
                              "SCHEMA_MANAGE"}
            /\ Contains(roles[user_role].allowed_operations, "WAREHOUSE_MANAGE")
    THEN TRUE
    ELSE FALSE

\* PermissionManager._has_operation_permission
has_operation_permission(user_role, operation) ==
    IF user_role \notin DOMAIN roles THEN FALSE
    ELSE IF Contains(roles[user_role].allowed_operations, "*") THEN TRUE
    ELSE IF Contains(roles[user_role].allowed_operations, operation) THEN TRUE
    ELSE IF /\ operation \in {"ADMIN", "WAREHOUSE_MANAGE", "USER_MANAGE_ADMIN",
                              "SCHEMA_MANAGE"}
            /\ Contains(roles[user_role].allowed_operations, "ADMIN")
    THEN TRUE
    ELSE FALSE

\* check_sql_permission with a slip: the administrative list is read before the
\* disallowed list
check_sql_permission_admin_first(sql_statement, user_role) ==
    LET sql_upper == Upper(Strip(sql_statement))
        d == FirstMatch(sql_permissions.disallowed, sql_upper)
        a == FirstMatch(sql_permissions.administrative_allowed, sql_upper)
        w == FirstMatch(sql_permissions.allowed, sql_upper)
    IN
    IF a # 0 /\ has_operation_permission(user_role, "ADMIN")
    THEN PermissionResult(TRUE,
            "Role '" \o user_role \o "' has administrative permissions", FALSE, FALSE)
    ELSE IF a # 0
    THEN PermissionResult(FALSE,
            "Role '" \o user_role \o "' lacks administrative permissions for '"
                \o Text(sql_permissions.administrative_allowed[a]) \o "'", FALSE, FALSE)
    ELSE IF d # 0
    THEN PermissionResult(FALSE,
            "SQL operation '" \o Text(sql_permissions.disallowed[d]) \o "' is not allowed",
            FALSE, FALSE)
    ELSE IF w # 0
    THEN PermissionResult(TRUE,
            "SQL operation '" \o Text(sql_permissions.allowed[w]) \o "' is allowed",
            FALSE, FALSE)
    ELSE IF has_operation_permission(user_role, "*")
    THEN PermissionResult(TRUE,
            "Role '" \o user_role \o "' has broad SQL permissions", FALSE, FALSE)
    ELSE PermissionResult(FALSE,
            "SQL statement type not recognized or not permitted", FALSE, FALSE)

\* check_sql_permission with a slip: the allowed list is read before the
\* administrative list
check_sql_permission_allowed_first(sql_statement, user_role) ==
    LET sql_upper == Upper(Strip(sql_statement))
        d == FirstMatch(sql_permissions.disallowed, sql_upper)
        a == FirstMatch(sql_permissions.administrative_allowed, sql_upper)
        w == FirstMatch(sql_permissions.allowed, sql_upper)
    IN
    IF d # 0
    THEN PermissionResult(FALSE,
            "SQL operation '" \o Text(sql_permissions.disallowed[d]) \o "' is not allowed",
            FALSE, FALSE)
    ELSE IF w # 0
    THEN PermissionResult(TRUE,
            "SQL operation '" \o Text(sql_permissions.allowed[w]) \o "' is allowed",
            FALSE, FALSE)
    ELSE IF a # 0 /\ has_operation_permission(user_role, "ADMIN")
    THEN PermissionResult(TRUE,
            "Role '" \o user_role \o "' has administrative permissions", FALSE, FALSE)
    ELSE IF a # 0
    THEN PermissionResult(FALSE,
            "Role '" \o user_role \o "' lacks administrative permissions for '"
                \o Text(sql_permissions.administrative_allowed[a]) \o "'", FALSE, FALSE)
    ELSE IF has_operation_permission(user_role, "*")
    THEN PermissionResult(TRUE,
            "Role '" \o user_role \o "' has broad SQL permissions", FALSE, FALSE)
    ELSE PermissionResult(FALSE,
            "SQL statement type not recognized or not permitted", FALSE, FALSE)

\* check_sql_permission with a slip: the fall-through asks for ADMIN instead of the
\* wildcard operation
check_sql_permission_broad_is_admin(sql_statement, user_role) ==
    LET sql_upper == Upper(Strip(sql_statement))
        d == FirstMatch(sql_permissions.disallowed, sql_upper)
        a == FirstMatch(sql_permissions.administrative_allowed, sql_upper)
        w == FirstMatch(sql_permissions.allowed, sql_upper)
    IN
    IF d # 0
    THEN PermissionResult(FALSE,
            "SQL operation '" \o Text(sql_permissions.disallowed[d]) \o "' is not allowed",
            FALSE, FALSE)
    ELSE IF a # 0 /\ has_operation_permission(user_role, "ADMIN")
    THEN PermissionResult(TRUE,
            "Role '" \o user_role \o "' has administrative permissions", FALSE, FALSE)
    ELSE IF a # 0
    THEN PermissionResult(FALSE,
            "Role '" \o user_role \o "' lacks administrative permissions for '"
                \o Text(sql_permissions.administrative_allowed[a]) \o "'", FALSE, FALSE)
    ELSE IF w # 0
    THEN PermissionResult(TRUE,
            "SQL operation '" \o Text(sql_permissions.allowed[w]) \o "' is allowed",
            FALSE, FALSE)
    ELSE IF has_operation_permission(user_role, "ADMIN")
    THEN PermissionResult(TRUE,
            "Role '" \o user_role \o "' has broad SQL permissions", FALSE, FALSE)
    ELSE PermissionResult(FALSE,
            "SQL statement type not recognized or not permitted", FALSE, FALSE)

\* check_sql_permission with a slip: an allowed prefix allows only roles of the role
\* table
check_sql_permission_allowed_needs_role(sql_statement, user_role) ==
    LET sql_upper == Upper(Strip(sql_statement))
        d == FirstMatch(sql_permissions.disallowed, sql_upper)
        a == FirstMatch(sql_permissions.administrative_allowed, sql_upper)
        w == FirstMatch(sql_permissions.allowed, sql_upper)
    IN
    IF d # 0
    THEN PermissionResult(FALSE,
            "SQL operation '" \o Text(sql_permissions.disallowed[d]) \o "' is not allowed",
            FALSE, FALSE)
    ELSE IF a # 0 /\ has_operation_permission(user_role, "ADMIN")
    THEN PermissionResult(TRUE,
            "Role '" \o user_role \o "' has administrative permissions", FALSE, FALSE)
    ELSE IF a # 0
    THEN PermissionResult(FALSE,
            "Role '" \o user_role \o "' lacks administrative permissions for '"
                \o Text(sql_permissions.administrative_allowed[a]) \o "'", FALSE, FALSE)
    ELSE IF w # 0 /\ user_role \in DOMAIN roles
    THEN PermissionResult(TRUE,
            "SQL operation '" \o Text(sql_permissions.allowed[w]) \o "' is allowed",
            FALSE, FALSE)
    ELSE IF has_operation_permission(user_role, "*")
    THEN PermissionResult(TRUE,
            "Role '" \o user_role \o "' has broad SQL permissions", FALSE, FALSE)
    ELSE PermissionResult(FALSE,
            "SQL statement type not recognized or not permitted", FALSE, FALSE)

\* PermissionManager.check_sql_permission
check_sql_permission(sql_statement, user_role) ==
    LET sql_upper == Upper(Strip(sql_statement))
        d == FirstMatch(sql_permissions.disallowed, sql_upper)
        a == FirstMatch(sql_permissions.administrative_allowed, sql_upper)
        w == FirstMatch(sql_permissions.allowed, sql_upper)
    IN
    IF d # 0
    THEN PermissionResult(FALSE,
            "SQL operation '" \o Text(sql_permissions.disallowed[d]) \o "' is not allowed",
            FALSE, FALSE)
    ELSE IF a # 0 /\ has_operation_permission(user_role, "ADMIN")
    THEN PermissionResult(TRUE,
            "Role '" \o user_role \o "' has administrative permissions", FALSE, FALSE)
    ELSE IF a # 0
    THEN PermissionResult(FALSE,
            "Role '" \o user_role \o "' lacks administrative permissions for '"
                \o Text(sql_permissions.administrative_allowed[a]) \o "'", FALSE, FALSE)
    ELSE IF w # 0
    THEN PermissionResult(TRUE,
            "SQL operation '" \o Text(sql_permissions.allowed[w]) \o "' is allowed",
            FALSE, FALSE)
    ELSE IF has_operation_permission(user_role, "*")
    THEN PermissionResult(TRUE,
            "Role '" \o user_role \o "' has broad SQL permissions", FALSE, FALSE)
    ELSE PermissionResult(FALSE,
            "SQL statement type not recognized or not permitted", FALSE, FALSE)

\* the statements callers pass: every str over Chars of at most MaxStmtLen characters
Statements == UNION {[1..n -> Chars] : n \in 0..MaxStmtLen}

\* SQLPermissions tables the configuration layer supplies
SqlTableChoices ==
    {[disallowed |-> << <<"X", "Y">> >>,
      administrative_allowed |-> << <<"Y">> >>,
      allowed |-> << <<"X">> >>],
     [disallowed |-> << <<"x", "y">>, <<"x">> >>,
      administrative_allowed |-> << <<"X">>, <<"Y", "X">> >>,
      allowed |-> << <<"y">> >>],
     [disallowed |-> << <<"Y", " ", "X">> >>,
      administrative_allowed |-> << <<"X", " ", "Y">> >>,
      allowed |-> << <<"Y">>, <<"X">> >>],
     [disallowed |-> << >>,
      administrative_allowed |-> << <<"X", "X">> >>,
      allowed |-> << <<"X">> >>],
     [disallowed |-> << << >> >>,
      administrative_allowed |-> << <<"X">> >>,
      allowed |-> << <<"Y">> >>]}

\* IcebreakerConfig.roles as shipped, with a role holding ADMIN only, one listing the
\* wildcard next to READ and one holding no operations
SqlRoles ==
    [r \in {"analyst", "dataops", "admin", "dba", "ops", "nobody"} |->
        [allowed_tools |-> <<"*">>,
         allowed_operations |->
            CASE r = "analyst" -> <<"READ">>
              [] r = "dataops" -> <<"READ", "WAREHOUSE_MANAGE", "USER_MANAGE_BASIC">>
              [] r = "admin" -> <<"*">>
              [] r = "dba" -> <<"ADMIN">>
              [] r = "ops" -> <<"READ", "*">>
              [] OTHER -> << >>]]

\* the role names callers pass: the roles of the table and one it does not hold
SqlRoleNames == {"analyst", "dataops", "admin", "dba", "ops", "nobody", "intern"}

InitSql ==
    /\ sql_permissions \in SqlTableChoices
    /\ roles = SqlRoles
    /\ safe_mode = TRUE
    /\ services = [s \in ServiceNames |-> DefaultServiceConfig]
    /\ tool_permissions = EmptyDict
    /\ permission_cache = EmptyDict
    /\ call \in {[op |-> "ask_sql", sql |-> sql, role |-> r] :
                    sql \in Statements, r \in SqlRoleNames}
    /\ result = NoResult
    /\ granted = {}
    /\ fresh_allowed = {}
    /\ cleared_pairs = {}
    /\ ParkedConn

\* the caller's check_sql_permission(sql_statement, user_role) returns
CheckSql ==
    /\ call.op = "ask_sql"
    /\ result' = check_sql_permission(call.sql, call.role)
    /\ call' = [call EXCEPT !.op = "check_sql"]
    /\ UNCHANGED <<policy_vars, sql_permissions, permission_cache, granted,
                   fresh_allowed, cleared_pairs, conn_vars>>

NextSql == CheckSql

SpecSql == InitSql /\ [][NextSql]_vars

\* the statement, trimmed and upper-cased, starts with the entry, upper-cased
StartsWithEntry(sql_statement, entry) ==
    LET text == Upper(Strip(sql_statement)) IN
    /\ Len(entry) <= Len(text)
    /\ \A i \in 1..Len(entry) : text[i] = UpperChar(entry[i])

MatchesList(sql_statement, patterns) ==
    \E i \in DOMAIN patterns : StartsWithEntry(sql_statement, patterns[i])

\* C2: a statement whose trimmed, upper-cased text starts with a disallowed entry is
\* denied by check_sql_permission for every role name, wildcard roles included.
C2_DisallowedAlwaysDenied ==
    (call.op = "check_sql" /\ MatchesList(call.sql, sql_permissions.disallowed))
        => ~result.allowed

\* C2 witness: the wildcard role 'admin' denied a statement written in lower case with
\* leading whitespace that also starts with an administrative or an allowed prefix
C2_Witness ==
    /\ call.op = "check_sql" /\ call.role = "admin"
    /\ Len(call.sql) >= 3 /\ call.sql[1] = " " /\ call.sql[2] \in {"x", "y"}
    /\ MatchesList(call.sql, sql_permissions.disallowed)
    /\ \/ MatchesList(call.sql, sql_permissions.administrative_allowed)
       \/ MatchesList(call.sql, sql_permissions.allowed)
    /\ \A i \in DOMAIN sql_permissions.disallowed : sql_permissions.disallowed[i] # << >>
    /\ ~result.allowed

\* the operations the role table lists for the role; none for a role it does not hold
RoleOperations(user_role) ==
    IF user_role \in DOMAIN roles
    THEN {roles[user_role].allowed_operations[i] :
            i \in DOMAIN roles[user_role].allowed_operations}
    ELSE {}

HoldsAdmin(user_role) ==
    "ADMIN" \in RoleOperations(user_role) \/ "*" \in RoleOperations(user_role)

HoldsAll(user_role) == "*" \in RoleOperations(user_role)

SqlChecked == call.op = "check_sql"

\* C11: the outcome of check_sql_permission is decided by the highest-precedence list
\* holding an entry the statement starts with (disallowed, then administrative, then
\* allowed, then no match), whatever the position of that entry inside its list: a
\* disallowed match denies, else an administrative match allows exactly the roles
\* with ADMIN, else an allowed match allows, else only a wildcard role is allowed.
C11_HighestPrecedenceListDecides ==
    SqlChecked =>
        result.allowed =
            IF MatchesList(call.sql, sql_permissions.disallowed) THEN FALSE
            ELSE IF MatchesList(call.sql, sql_permissions.administrative_allowed)
            THEN HoldsAdmin(call.role)
            ELSE IF MatchesList(call.sql, sql_permissions.allowed) THEN TRUE
            ELSE HoldsAll(call.role)

\* C11 witness: a statement starting with an allowed entry and with an administrative
\* entry that is not the first of its list, and with no disallowed entry, was denied
\* for 'analyst', who holds READ only
C11_Witness ==
    /\ SqlChecked /\ call.role = "analyst"
    /\ ~MatchesList(call.sql, sql_permissions.disallowed)
    /\ MatchesList(call.sql, sql_permissions.administrative_allowed)
    /\ ~StartsWithEntry(call.sql, sql_permissions.administrative_allowed[1])
    /\ MatchesList(call.sql, sql_permissions.allowed)
    /\ ~result.allowed

AdministrativeStatement ==
    /\ SqlChecked
    /\ ~MatchesList(call.sql, sql_permissions.disallowed)
    /\ MatchesList(call.sql, sql_permissions.administrative_allowed)

\* C12: for a statement starting with no disallowed entry and with an administrative
\* entry, the result is allowed exactly when the role is in the role table and its
\* allowed_operations holds ADMIN or the wildcard; the result then says the role has,
\* or lacks, administrative permissions.
C12_AdministrativeNeedsAdmin ==
    AdministrativeStatement =>
        /\ result.allowed <=>
                /\ call.role \in DOMAIN roles
                /\ \/ Contains(roles[call.role].allowed_operations, "ADMIN")
                   \/ Contains(roles[call.role].allowed_operations, "*")
        /\ result.allowed =>
                result.reason = "Role '" \o call.role \o "' has administrative permissions"
        /\ ~result.allowed =>
                \E i \in DOMAIN sql_permissions.administrative_allowed :
                    result.reason =
                        "Role '" \o call.role \o "' lacks administrative permissions for '"
                            \o Text(sql_permissions.administrative_allowed[i]) \o "'"

\* C12 witness: 'dataops', holding READ, WAREHOUSE_MANAGE and USER_MANAGE_BASIC, was
\* denied an administrative statement
C12_Witness ==
    /\ AdministrativeStatement
    /\ call.role = "dataops"
    /\ ~result.allowed

UnmatchedStatement ==
    /\ SqlChecked
    /\ ~MatchesList(call.sql, sql_permissions.disallowed)
    /\ ~MatchesList(call.sql, sql_permissions.administrative_allowed)
    /\ ~MatchesList(call.sql, sql_permissions.allowed)

\* C13: for a statement starting with no entry of any of the three lists, the result
\* is allowed exactly when the role is in the role table and its allowed_operations
\* holds the wildcard; every other role, one holding ADMIN and an unknown one
\* included, is denied with 'SQL statement type not recognized or not permitted'.
C13_UnmatchedNeedsWildcard ==
    UnmatchedStatement =>
        /\ result.allowed <=> HoldsAll(call.role)
        /\ result.allowed =>
                result.reason = "Role '" \o call.role \o "' has broad SQL permissions"
        /\ ~result.allowed =>
                result.reason = "SQL statement type not recognized or not permitted"

\* C13 witness: 'dba', holding ADMIN only, was denied a non-empty statement that no
\* list knows
C13_Witness ==
    /\ UnmatchedStatement
    /\ call.role = "dba"
    /\ Strip(call.sql) # << >>
    /\ ~result.allowed
    /\ result.reason = "SQL statement type not recognized or not permitted"

----------------------------------------------------------------------------
(* Operation contexts: PermissionManager.validate_operation_context.         *)
(* A context is a dict; a value is a Python object with its type.            *)

MaxFragments == 2

\* a Python object: its type name and its value
Py(type, value) == [type |-> type, value |-> value]

\* bool(v)
truthy(v) ==
    CASE v.type = "str" -> v.value # ""
      [] v.type = "int" -> v.value # 0
      [] v.type = "list" -> v.value # << >>
      [] OTHER -> FALSE

\* isinstance(v, str)
is_str(v) == v.type = "str"

\* pattern in text, for two str
InText(pattern, text) ==
    \E i \in 1..(Len(text) - Len(pattern) + 1) :
        SubSeq(text, i, i + Len(pattern) - 1) = pattern

dangerous_patterns ==
    << <<"D", "R", "O", "P">>, <<"D", "E", "L", "E", "T", "E">>,
       <<"T", "R", "U", "N", "C", "A", "T", "E">>, <<"U", "P", "D", "A", "T", "E">>,
       <<"I", "N", "S", "E", "R", "T">>, <<"C", "R", "E", "A", "T", "E">>,
       <<"A", "L", "T", "E", "R">> >>

\* the for loop over dangerous_patterns: the index of the first pattern found in the
\* text, 0 when the loop falls through
RECURSIVE FirstDangerousFrom(_, _)
FirstDangerousFrom(sql_upper, i) ==
    IF i > Len(dangerous_patterns) THEN 0
    ELSE IF InText(dangerous_patterns[i], sql_upper) THEN i
    ELSE FirstDangerousFrom(sql_upper, i + 1)

InvalidWarehouseReason == "Invalid warehouse name in operation context"

\* validate_operation_context with a slip: the text is searched as written, not
\* upper-cased
validate_operation_context_case_sensitive(tool_name, operation_context) ==
    LET sql_statement == DictGet(operation_context, "sql", << >>)
        found == IF sql_statement # << >> /\ safe_mode
                 THEN FirstDangerousFrom(sql_statement, 1) ELSE 0
    IN
    IF found # 0
    THEN PermissionResult(FALSE,
             "Operation '" \o Text(dangerous_patterns[found]) \o "' not allowed in safe mode",
             TRUE, FALSE)
    ELSE IF /\ "warehouse" \in DOMAIN operation_context
            /\ (~truthy(operation_context["warehouse"])
                   \/ ~is_str(operation_context["warehouse"]))
    THEN PermissionResult(FALSE, InvalidWarehouseReason, FALSE, FALSE)
    ELSE PermissionResult(TRUE, "Operation context validation passed", FALSE, FALSE)

\* validate_operation_context with a slip: the warehouse is validated before the SQL
\* text is scanned
validate_operation_context_warehouse_first(tool_name, operation_context) ==
    LET sql_statement == DictGet(operation_context, "sql", << >>)
        found == IF sql_statement # << >> /\ safe_mode
                 THEN FirstDangerousFrom(Upper(sql_statement), 1) ELSE 0
    IN
    IF /\ "warehouse" \in DOMAIN operation_context
       /\ (~truthy(operation_context["warehouse"])
              \/ ~is_str(operation_context["warehouse"]))
    THEN PermissionResult(FALSE, InvalidWarehouseReason, FALSE, FALSE)
    ELSE IF found # 0
    THEN PermissionResult(FALSE,
             "Operation '" \o Text(dangerous_patterns[found]) \o "' not allowed in safe mode",
             TRUE, FALSE)
    ELSE PermissionResult(TRUE, "Operation context validation passed", FALSE, FALSE)

\* PermissionManager.validate_operation_context
validate_operation_context(tool_name, operation_context) ==
    LET sql_statement == DictGet(operation_context, "sql", << >>)
        found == IF sql_statement # << >> /\ safe_mode
                 THEN FirstDangerousFrom(Upper(sql_statement), 1) ELSE 0
    IN
    IF found # 0
    THEN PermissionResult(FALSE,
             "Operation '" \o Text(dangerous_patterns[found]) \o "' not allowed in safe mode",
             TRUE, FALSE)
    ELSE IF /\ "warehouse" \in DOMAIN operation_context
            /\ (~truthy(operation_context["warehouse"])
                   \/ ~is_str(operation_context["warehouse"]))
    THEN PermissionResult(FALSE, InvalidWarehouseReason, FALSE, FALSE)
    ELSE PermissionResult(TRUE, "Operation context validation passed", FALSE, FALSE)

\* pieces of SQL text: the seven verbs in upper, lower or mixed case, halves of a
\* verb, and text that holds none
Fragments ==
    { <<"D", "R", "O", "P">>, <<"d", "r", "o", "p">>, <<"D", "e", "l", "e", "t", "e">>,
      <<"t", "r", "u", "n", "c", "a", "t", "e">>, <<"U", "P", "D", "A", "T", "E">>,
      <<"i", "n", "s", "e", "r", "t">>, <<"c", "r", "e", "a", "t", "e">>,
      <<"A", "l", "t", "e", "r">>, <<"d", "r">>, <<"o", "p">>,
      <<"s", "e", "l", "e", "c", "t">>, <<" ">>, <<"_">> }

\* the texts made of up to n fragments
RECURSIVE TextsOf(_)
TextsOf(n) ==
    IF n = 0 THEN {<< >>}
    ELSE LET shorter == TextsOf(n - 1) IN
         shorter \cup {text \o f : text \in shorter, f \in Fragments}

\* the 'sql' entry of a context: missing, or a text (the empty one included)
SqlEntries == {<< >>} \cup {<<text>> : text \in TextsOf(MaxFragments)}

\* the 'warehouse' entry of a context: missing, or an object of any type
WarehouseEntries ==
    { << >>, <<Py("str", "COMPUTE_WH")>>, <<Py("str", "")>>, <<Py("NoneType", "None")>>,
      <<Py("int", 7)>>, <<Py("int", 0)>>, <<Py("list", <<"COMPUTE_WH">>)>> }

\* the dict holding the entries that are there
ContextOf(sql_entry, warehouse_entry) ==
    [k \in (IF sql_entry # << >> THEN {"sql"} ELSE {})
              \cup (IF warehouse_entry # << >> THEN {"warehouse"} ELSE {}) |->
        IF k = "sql" THEN sql_entry[1] ELSE warehouse_entry[1]]

Contexts == {ContextOf(se, we) : se \in SqlEntries, we \in WarehouseEntries}

InitCtx ==
    /\ safe_mode \in BOOLEAN
    /\ services = [s \in ServiceNames |-> DefaultServiceConfig]
    /\ roles = SqlRoles
    /\ tool_permissions = EmptyDict
    /\ ParkedSql
    /\ ParkedConn
    /\ permission_cache = EmptyDict
    /\ call \in {[op |-> "ask_context", tool |-> "execute_query", context |-> c] :
                    c \in Contexts}
    /\ result = NoResult
    /\ granted = {}
    /\ fresh_allowed = {}
    /\ cleared_pairs = {}

\* a caller asks validate_operation_context(tool_name, operation_context)
ValidateContext ==
    /\ call.op = "ask_context"
    /\ result' = validate_operation_context(call.tool, call.context)
    /\ call' = [call EXCEPT !.op = "validate_context"]
    /\ UNCHANGED <<policy_vars, sql_permissions, permission_cache, granted,
                   fresh_allowed, cleared_pairs, conn_vars>>

NextCtx == ValidateContext

SpecCtx == InitCtx /\ [][NextCtx]_vars

\* validate_operation_context has answered
Validated == call.op = "validate_context"

\* the 'sql' text of the context, empty when there is none
SqlText == IF "sql" \in DOMAIN call.context THEN call.context["sql"] ELSE << >>

\* the verb occurs somewhere in the text, in any mix of cases
Occurs(verb, text) ==
    \E i \in 1..Len(text) :
        /\ i + Len(verb) - 1 <= Len(text)
        /\ \A j \in 1..Len(verb) :
              \E k \in DOMAIN UpperLetters :
                 /\ UpperLetters[k] = verb[j]
                 /\ text[i + j - 1] \in {UpperLetters[k], LowerLetters[k]}

\* the verbs in their fixed order
Verbs == <<"DROP", "DELETE", "TRUNCATE", "UPDATE", "INSERT", "CREATE", "ALTER">>

\* position n of the fixed order is the first whose verb occurs in the text
FirstOccurring(n, text) ==
    /\ Occurs(dangerous_patterns[n], text)
    /\ \A m \in 1..(n - 1) : ~Occurs(dangerous_patterns[m], text)

\* the context's warehouse entry is there and is empty or not a string
InvalidWarehouse ==
    /\ "warehouse" \in DOMAIN call.context
    /\ \/ call.context["warehouse"].type # "str"
       \/ call.context["warehouse"].value = ""

SafeModeVerbDenial ==
    /\ safe_mode
    /\ \E n \in DOMAIN dangerous_patterns : Occurs(dangerous_patterns[n], SqlText)

\* C26: with a non-empty 'sql' text, in safe mode a text holding one of the seven
\* verbs anywhere, in any case, is denied with requires_confirmation = true and a
\* reason naming the first verb of the fixed order that occurs; with safe mode off
\* and no warehouse entry the same context is allowed.
C26_SafeModeVerbScan ==
    (Validated /\ SqlText # << >>) =>
        /\ \A n \in DOMAIN dangerous_patterns :
              (safe_mode /\ FirstOccurring(n, SqlText)) =>
                  /\ ~result.allowed /\ result.requires_confirmation
                  /\ result.reason = "Operation '" \o Verbs[n] \o "' not allowed in safe mode"
        /\ (~safe_mode /\ "warehouse" \notin DOMAIN call.context) => result.allowed

\* C26 witness: safe mode on, the text holds UPDATE ahead of a lower-case drop, and
\* the denial names DROP
C26_Witness ==
    /\ Validated /\ safe_mode
    /\ SqlText = <<"U", "P", "D", "A", "T", "E", "d", "r", "o", "p">>
    /\ ~result.allowed /\ result.requires_confirmation
    /\ result.reason = "Operation 'DROP' not allowed in safe mode"

----------------------------------------------------------------------------
(* The connection manager: core/connection.py.                              *)
(* A connection object is its number, 1, 2, ... in the order the backend    *)
(* made them; 0 stands for None, and -1 for a timestamp that is None.       *)

NumThreads == 2
MaxConnects == 2
MaxTime == 3

Threads == 1..NumThreads
NoThread == 0
NoConnection == 0
NoTime == -1
NoSql == <<"-">>

\* SNOWFLAKE_CONN_REFRESH_HOURS, in hours (8 when the variable is unset)
RefreshInterval == 2

\* an exception object: its class name and str(); NoError stands for None
Exc(type, text) == [type |-> type, text |-> text]
NoError == Exc("None", "")

\* a str option that is unset (None or empty: both are falsy)
Unset == ""

\* SnowflakeConfig, the fields _build_connection_params reads for authentication
SnowflakeConfig(auth_type, private_key, private_key_path, password, token) ==
    [auth_type |-> auth_type, private_key |-> private_key,
     private_key_path |-> private_key_path, password |-> password, token |-> token]

\* a configuration with a usable credential: private-key authentication, key embedded
ValidSnowflake == SnowflakeConfig("private_key", "key", Unset, Unset, Unset)

\* SnowflakeConnectionManager.__init__
InitManager(snowflake) ==
    [connection |-> NoConnection, connection_healthy |-> FALSE,
     last_refresh |-> NoTime, last_error |-> NoError, config |-> snowflake]

\* SnowflakeConnectionManager._build_connection_params: the exception it raises, or
\* the authentication parameters it adds
build_connection_params ==
    LET c == mgr.config
        failing(text) == [raises |-> Exc("ConfigurationError", text), auth |-> EmptyDict]
        returns(auth) == [raises |-> NoError, auth |-> auth]
    IN
    IF c.auth_type = "private_key"
    THEN IF c.private_key # Unset THEN returns([private_key |-> c.private_key])
         ELSE IF c.private_key_path # Unset
         THEN returns([private_key_file |-> c.private_key_path])
         ELSE failing("Private key authentication requires private_key or private_key_path")
    ELSE IF c.auth_type = "password"
    THEN IF c.password = Unset
         THEN failing("Password authentication requires password parameter")
         ELSE returns([password |-> c.password])
    ELSE IF c.auth_type = "externalbrowser"
    THEN returns([authenticator |-> "externalbrowser"])
    ELSE IF c.auth_type = "oauth"
    THEN IF c.token = Unset
         THEN failing("OAuth authentication requires token parameter")
         ELSE returns([token |-> c.token, authenticator |-> "oauth"])
    ELSE returns(EmptyDict)

\* _is_connection_stale with a slip: the subtraction is the wrong way round
is_connection_stale_reversed ==
    IF mgr.last_refresh = NoTime THEN TRUE
    ELSE mgr.last_refresh - now > RefreshInterval

\* SnowflakeConnectionManager._is_connection_stale
is_connection_stale ==
    IF mgr.last_refresh = NoTime THEN TRUE
    ELSE now - mgr.last_refresh > RefreshInterval

\* needs_new_connection with a slip: the healthy flag is read the wrong way round
needs_new_connection_inverted ==
    \/ mgr.connection = NoConnection
    \/ mgr.connection_healthy
    \/ is_connection_stale

\* needs_new_connection with a slip: the held connection is replaced on every call
needs_new_connection_always ==
    \/ mgr.connection = NoConnection
    \/ mgr.connection # NoConnection

\* needs_new_connection with a slip: the healthy flag is not read
needs_new_connection_ignoring_health ==
    \/ mgr.connection = NoConnection
    \/ is_connection_stale

\* the test that opens get_connection: a new connection is needed
needs_new_connection ==
    \/ mgr.connection = NoConnection
    \/ ~mgr.connection_healthy
    \/ is_connection_stale

\* the holder of _connection_lock while a caller runs its scoped block, had the
\* lock been released before the yield
lock_released_before_yield(t) == NoThread

\* the holder of _connection_lock while a caller runs its scoped block: the yield
\* sits inside "with self._connection_lock"
lock_holder_at_yield(t) == t

\* what one pass through get_connection can meet, from the lock to the yield
Outcomes == {"ok", "connect_fails", "probe_fails", "cursor_fails"}

\* the exceptions the backend and the caller raise
ConnectFailure == Exc("DatabaseError", "connect refused")
ProbeFailure == Exc("ProgrammingError", "probe failed")
CursorFailure == Exc("InterfaceError", "cursor failed")
CallerFailure == Exc("CallerError", "block failed")

\* raise ConnectionError(f"Failed to connect to Snowflake: {e}") from e
ConnectionErrorFrom(e) == Exc("ConnectionError", "Failed to connect to Snowflake: " \o e.text)

\* _create_connection with a slip: a successful connect leaves the recorded error
create_connection_error_kept(outcome) ==
    LET params == build_connection_params
        cause == IF params.raises # NoError THEN params.raises
                 ELSE IF outcome = "connect_fails" THEN ConnectFailure
                 ELSE IF outcome = "probe_fails" THEN ProbeFailure
                 ELSE NoError
    IN
    [raises |-> IF cause = NoError THEN NoError ELSE ConnectionErrorFrom(cause),
     mgr |-> IF cause = NoError
             THEN [mgr EXCEPT !.last_refresh = now, !.connection_healthy = TRUE]
             ELSE [mgr EXCEPT !.last_error = cause, !.connection_healthy = FALSE],
     attempted |-> params.raises = NoError,
     opened |-> params.raises = NoError /\ outcome # "connect_fails"]

\* SnowflakeConnectionManager._create_connection when the backend answers with
\* outcome: the exception raised (NoError when it returns), the manager fields it
\* leaves, whether snowflake.connector.connect was called and whether it returned a
\* connection
create_connection(outcome) ==
    LET params == build_connection_params
        cause == IF params.raises # NoError THEN params.raises
                 ELSE IF outcome = "connect_fails" THEN ConnectFailure
                 ELSE IF outcome = "probe_fails" THEN ProbeFailure
                 ELSE NoError
    IN
    [raises |-> IF cause = NoError THEN NoError ELSE ConnectionErrorFrom(cause),
     mgr |-> IF cause = NoError
             THEN [mgr EXCEPT !.last_refresh = now, !.last_error = NoError,
                              !.connection_healthy = TRUE]
             ELSE [mgr EXCEPT !.last_error = cause, !.connection_healthy = FALSE],
     attempted |-> params.raises = NoError,
     opened |-> params.raises = NoError /\ outcome # "connect_fails"]

\* is_connection_healthy with a slip: the missing connection is reported before the
\* recorded error
is_connection_healthy_connection_first ==
    IF mgr.connection = NoConnection THEN <<FALSE, "No connection established">>
    ELSE IF mgr.last_error # NoError
    THEN <<mgr.connection_healthy, mgr.last_error.type \o ": " \o mgr.last_error.text>>
    ELSE IF is_connection_stale THEN <<FALSE, "Connection is stale">>
    ELSE <<mgr.connection_healthy, "None">>

\* is_connection_healthy with a slip: staleness is tested before the missing connection
is_connection_healthy_stale_first ==
    IF mgr.last_error # NoError
    THEN <<mgr.connection_healthy, mgr.last_error.type \o ": " \o mgr.last_error.text>>
    ELSE IF is_connection_stale THEN <<FALSE, "Connection is stale">>
    ELSE IF mgr.connection = NoConnection THEN <<FALSE, "No connection established">>
    ELSE <<mgr.connection_healthy, "None">>

\* SnowflakeConnectionManager.is_connection_healthy; "None" stands for no message
is_connection_healthy ==
    IF mgr.last_error # NoError
    THEN <<mgr.connection_healthy, mgr.last_error.type \o ": " \o mgr.last_error.text>>
    ELSE IF mgr.connection = NoConnection THEN <<FALSE, "No connection established">>
    ELSE IF is_connection_stale THEN <<FALSE, "Connection is stale">>
    ELSE <<mgr.connection_healthy, "None">>

\* the class attributes once the manager under study has been built by get_instance
OneInstance == [instance |-> 1, lock |-> NoThread, made |-> <<ValidSnowflake>>]

\* what a thread has been answered by is_connection_healthy() or
\* get_connection_info(): nothing yet
NoAnswer == << >>

InitThreads ==
    /\ lock_holder = NoThread
    /\ thr = [t \in Threads |->
                [pc |-> "idle", got |-> NoConnection, last |-> "none", sql |-> NoSql,
                 exc |-> NoError, cursor |-> "none", seen |-> NoAnswer]]
    /\ backend = [attempts |-> 0, made |-> 0, live |-> {}, closes |-> 0]
    /\ now = 0
    /\ hist = [backend_failed |-> FALSE, disturbed |-> FALSE, recalled |-> FALSE,
               closed |-> FALSE, stale_found |-> FALSE, refreshed |-> FALSE]
    /\ cls = OneInstance

InitConn ==
    /\ mgr = InitManager(ValidSnowflake)
    /\ InitThreads

Acquiring == {t \in Threads : thr[t].pc = "acquiring"}

\* a thread calls get_connection() and waits for the lock
Call(t) ==
    /\ thr[t].pc = "idle"
    /\ backend.attempts + Cardinality(Acquiring) < MaxConnects
    /\ thr' = [thr EXCEPT ![t].pc = "acquiring", ![t].sql = NoSql,
                          ![t].exc = NoError, ![t].cursor = "none"]
    /\ hist' = [hist EXCEPT !.recalled = @ \/ thr[t].last # "none"]
    /\ UNCHANGED <<mgr, lock_holder, backend, now>>
    /\ UNCHANGED <<policy_vars, sql_permissions, perm_vars, cls>>

\* a thread calls execute_safe_query(sql), which goes straight to get_connection()
ExecuteSafeQuery(t, sql) ==
    /\ thr[t].pc = "idle"
    /\ backend.attempts + Cardinality(Acquiring) < MaxConnects
    /\ thr' = [thr EXCEPT ![t].pc = "acquiring", ![t].sql = sql,
                          ![t].exc = NoError, ![t].cursor = "none"]
    /\ hist' = [hist EXCEPT !.recalled = @ \/ thr[t].last # "none"]
    /\ UNCHANGED <<mgr, lock_holder, backend, now>>
    /\ UNCHANGED <<policy_vars, sql_permissions, perm_vars, cls>>

\* connect_attempts with a slip: a failed connect is tried once more before raising
connect_attempts_retrying(created) ==
    IF ~created.attempted THEN 0
    ELSE IF created.raises # NoError THEN 2
    ELSE 1

\* the snowflake.connector.connect calls of one _create_connection: the one call it
\* makes once the parameters are built
connect_attempts(created) == IF created.attempted THEN 1 ELSE 0

\* get_connection from taking the lock to the yield, or to the exception it raises
Enter(t, outcome) ==
    /\ thr[t].pc = "acquiring"
    /\ lock_holder = NoThread
    /\ \E fresh \in {needs_new_connection}, created \in {create_connection(outcome)} :
        LET closed_old == IF fresh /\ mgr.connection # NoConnection
                          THEN {mgr.connection} ELSE {}
            made == IF fresh /\ created.opened THEN backend.made + 1 ELSE backend.made
            mgr1 == IF ~fresh THEN mgr
                    ELSE IF created.raises = NoError
                    THEN [created.mgr EXCEPT !.connection = made]
                    ELSE created.mgr
            raised == IF fresh /\ created.raises # NoError THEN created.raises
                      ELSE IF outcome = "cursor_fails" THEN CursorFailure
                      ELSE NoError
            found_stale == /\ mgr.connection # NoConnection
                           /\ mgr.connection_healthy
                           /\ is_connection_stale
        IN
        /\ outcome \in {"connect_fails", "probe_fails"} => fresh /\ created.attempted
        /\ backend' = [attempts |-> backend.attempts
                                      + (IF fresh THEN connect_attempts(created) ELSE 0),
                       made |-> made,
                       live |-> (backend.live \ closed_old) \cup
                                (IF made # backend.made THEN {made} ELSE {}),
                       closes |-> backend.closes + Cardinality(closed_old)]
        /\ IF raised = NoError
           THEN /\ mgr' = mgr1
                /\ lock_holder' = lock_holder_at_yield(t)
                /\ thr' = [thr EXCEPT ![t].pc = "block", ![t].got = mgr1.connection,
                                      ![t].last = "yielded", ![t].exc = NoError,
                                      ![t].cursor = "open"]
           ELSE /\ mgr' = [mgr1 EXCEPT !.connection_healthy = FALSE,
                                       !.last_error = raised]
                /\ lock_holder' = NoThread
                /\ thr' = [thr EXCEPT ![t].pc = "idle", ![t].got = NoConnection,
                                      ![t].last = "failed", ![t].sql = NoSql,
                                      ![t].exc = raised]
        /\ hist' = [hist EXCEPT !.backend_failed = @ \/ raised # NoError,
                                !.disturbed = @ \/ found_stale,
                                !.stale_found = @ \/ found_stale]
    /\ UNCHANGED now
    /\ UNCHANGED <<policy_vars, sql_permissions, perm_vars, cls>>

\* the cursor of a scoped block once get_connection resumes after the yield: neither
\* the normal path nor the except path closes it
cursor_after_block(cursor) == cursor

\* the caller's scoped block ends normally: the generator resumes and the lock is released
ExitBlock(t) ==
    /\ thr[t].pc = "block"
    /\ thr' = [thr EXCEPT ![t].pc = "idle", ![t].last = "returned", ![t].sql = NoSql,
                          ![t].cursor = cursor_after_block(thr[t].cursor)]
    /\ lock_holder' = NoThread
    /\ UNCHANGED <<mgr, backend, now, hist>>
    /\ UNCHANGED <<policy_vars, sql_permissions, perm_vars, cls>>

\* the caller's scoped block raises: the exception is thrown into the generator at the
\* yield, recorded, and re-raised
RaiseInBlock(t) ==
    /\ thr[t].pc = "block"
    /\ mgr' = [mgr EXCEPT !.connection_healthy = FALSE, !.last_error = CallerFailure]
    /\ thr' = [thr EXCEPT ![t].pc = "idle", ![t].last = "raised", ![t].sql = NoSql,
                          ![t].exc = CallerFailure,
                          ![t].cursor = cursor_after_block(thr[t].cursor)]
    /\ lock_holder' = NoThread
    /\ hist' = [hist EXCEPT !.disturbed = TRUE]
    /\ UNCHANGED <<backend, now>>
    /\ UNCHANGED <<policy_vars, sql_permissions, perm_vars, cls>>

\* what the held connection's close() does when close_connection calls it
CloseOutcomes == {"closes", "close_raises"}

CloseFailure == Exc("DatabaseError", "close failed")

\* close_connection with a slip: no try/finally around close(), so a raising close()
\* propagates and the fields stay as they were
close_connection_unprotected(closing) ==
    IF mgr.connection = NoConnection
    THEN [mgr |-> mgr, raises |-> NoError, close_calls |-> 0]
    ELSE IF closing = "close_raises"
    THEN [mgr |-> mgr, raises |-> CloseFailure, close_calls |-> 1]
    ELSE [mgr |-> [mgr EXCEPT !.connection = NoConnection, !.connection_healthy = FALSE],
          raises |-> NoError, close_calls |-> 1]

\* close_connection with a slip: the finally clause leaves the healthy flag alone
close_connection_flag_kept(closing) ==
    IF mgr.connection = NoConnection
    THEN [mgr |-> mgr, raises |-> NoError, close_calls |-> 0]
    ELSE [mgr |-> [mgr EXCEPT !.connection = NoConnection],
          raises |-> NoError, close_calls |-> 1]

\* SnowflakeConnectionManager.close_connection under the lock: the fields it leaves,
\* the exception that leaves it, and the close() calls it makes
close_connection(closing) ==
    IF mgr.connection = NoConnection
    THEN [mgr |-> mgr, raises |-> NoError, close_calls |-> 0]
    ELSE [mgr |-> [mgr EXCEPT !.connection = NoConnection, !.connection_healthy = FALSE],
          raises |-> NoError, close_calls |-> 1]

\* refresh_connection with a slip: it logs and leaves the connection where it is
refresh_connection_log_only(closing) ==
    [mgr |-> mgr, raises |-> NoError, close_calls |-> 0]

\* SnowflakeConnectionManager.refresh_connection: a log line, then close_connection()
refresh_connection(closing) == close_connection(closing)

\* the manager fields once is_connection_healthy() has returned, with a slip: a stale
\* connection is dropped on the way
mgr_after_health_check_dropping_stale ==
    IF mgr.connection # NoConnection /\ is_connection_stale
    THEN [mgr EXCEPT !.connection = NoConnection, !.connection_healthy = FALSE]
    ELSE mgr

\* the manager fields once is_connection_healthy() has returned: it assigns nothing
mgr_after_health_check == mgr

\* SnowflakeConnectionManager.get_connection_info, as <<healthy, last_refresh,
\* error_message, session_id>>; session_id is there only with a connection held
get_connection_info ==
    LET health == is_connection_healthy IN
    <<health[1], mgr.last_refresh, health[2],
      IF mgr.connection # NoConnection THEN mgr.connection ELSE NoConnection>>

\* SnowflakeConnectionManager.close_connection, from a thread that holds no block
CloseConnection(t) ==
    /\ thr[t].pc = "idle"
    /\ lock_holder = NoThread
    /\ mgr.connection # NoConnection
    /\ mgr' = close_connection("closes").mgr
    /\ backend' = [backend EXCEPT !.live = @ \ {mgr.connection}, !.closes = @ + 1]
    /\ hist' = [hist EXCEPT !.closed = TRUE]
    /\ UNCHANGED <<thr, lock_holder, now>>
    /\ UNCHANGED <<policy_vars, sql_permissions, perm_vars, cls>>

\* an hour passes
Tick ==
    /\ now < MaxTime
    /\ now' = now + 1
    /\ UNCHANGED <<mgr, lock_holder, thr, backend, hist>>
    /\ UNCHANGED <<policy_vars, sql_permissions, perm_vars, cls>>

ParkedPolicy ==
    /\ safe_mode = TRUE
    /\ services = [s \in ServiceNames |-> DefaultServiceConfig]
    /\ tool_permissions = EmptyDict
    /\ roles = SqlRoles

InitSpecConn ==
    /\ InitConn
    /\ ParkedPolicy
    /\ ParkedSql
    /\ InitPerm

NextConn ==
    \/ \E t \in Threads : Call(t)
    \/ \E t \in Threads, outcome \in Outcomes : Enter(t, outcome)
    \/ \E t \in Threads : ExitBlock(t)
    \/ \E t \in Threads : RaiseInBlock(t)
    \/ \E t \in Threads : CloseConnection(t)
    \/ Tick

SpecConn == InitSpecConn /\ [][NextConn]_vars

\* SpecConn with threads that are scheduled: a thread waiting for a free lock gets
\* through get_connection, and a scoped block ends, normally or by raising
FairSpecConn ==
    /\ SpecConn
    /\ \A t \in Threads : WF_vars(\E outcome \in Outcomes : Enter(t, outcome))
    /\ \A t \in Threads : WF_vars(ExitBlock(t) \/ RaiseInBlock(t))

\* the execution gate alone: one thread runs statements through execute_safe_query
\* under one SQL permission table
InitSpecGate ==
    /\ InitConn
    /\ ParkedPolicy
    /\ sql_permissions \in SqlTableChoices
    /\ InitPerm

NextGate ==
    \/ \E sql \in Statements : ExecuteSafeQuery(1, sql)
    \/ \E outcome \in Outcomes : Enter(1, outcome)
    \/ ExitBlock(1)
    \/ RaiseInBlock(1)

SpecGate == InitSpecGate /\ [][NextGate]_vars

\* the credentials the configuration layer can hand the manager: each authentication
\* type with each of its secrets set or unset
SnowflakeChoices ==
    {SnowflakeConfig(auth_type, private_key, private_key_path, password, token) :
        auth_type \in {"private_key", "password", "externalbrowser", "oauth"},
        private_key \in {Unset, "key"},
        private_key_path \in {Unset, "key.p8"},
        password \in {Unset, "secret"},
        token \in {Unset, "token"}}

\* one thread using a manager built over any of the credentials
InitSpecAuth ==
    /\ mgr \in {InitManager(snowflake) : snowflake \in SnowflakeChoices}
    /\ InitThreads
    /\ ParkedPolicy
    /\ ParkedSql
    /\ InitPerm

NextAuth ==
    \/ Call(1)
    \/ \E outcome \in Outcomes : Enter(1, outcome)
    \/ ExitBlock(1)
    \/ RaiseInBlock(1)
    \/ CloseConnection(1)
    \/ Tick

SpecAuth == InitSpecAuth /\ [][NextAuth]_vars

\* close_connection() whatever the manager holds and whatever close() does
Close(t, closing) ==
    /\ thr[t].pc = "idle"
    /\ lock_holder = NoThread
    /\ \E done \in {close_connection(closing)} :
        /\ mgr' = done.mgr
        /\ backend' = [backend EXCEPT
                          !.live = IF done.close_calls = 1 /\ closing = "closes"
                                   THEN @ \ {mgr.connection} ELSE @,
                          !.closes = @ + done.close_calls]
        /\ thr' = [thr EXCEPT ![t].last = "closed", ![t].exc = done.raises,
                              ![t].seen = NoAnswer]
    /\ hist' = [hist EXCEPT !.closed = @ \/ mgr.connection # NoConnection]
    /\ UNCHANGED <<lock_holder, now>>
    /\ UNCHANGED <<policy_vars, sql_permissions, perm_vars, cls>>

\* refresh_connection()
Refresh(t, closing) ==
    /\ thr[t].pc = "idle"
    /\ lock_holder = NoThread
    /\ \E done \in {refresh_connection(closing)} :
        /\ mgr' = done.mgr
        /\ backend' = [backend EXCEPT
                          !.live = IF done.close_calls = 1 /\ closing = "closes"
                                   THEN @ \ {mgr.connection} ELSE @,
                          !.closes = @ + done.close_calls]
        /\ thr' = [thr EXCEPT ![t].last = "refreshed", ![t].exc = done.raises,
                              ![t].seen = NoAnswer]
    /\ hist' = [hist EXCEPT !.refreshed = @ \/ mgr.connection # NoConnection]
    /\ UNCHANGED <<lock_holder, now>>
    /\ UNCHANGED <<policy_vars, sql_permissions, perm_vars, cls>>

\* is_connection_healthy(): it takes no lock, so it runs whoever holds the lock
IsConnectionHealthy(t) ==
    /\ thr[t].pc \in {"idle", "block"}
    /\ mgr' = mgr_after_health_check
    /\ thr' = [thr EXCEPT ![t].last = "health", ![t].seen = is_connection_healthy]
    /\ UNCHANGED <<lock_holder, backend, now, hist>>
    /\ UNCHANGED <<policy_vars, sql_permissions, perm_vars, cls>>

\* get_connection_info(): is_connection_healthy() and reads of the fields
GetConnectionInfo(t) ==
    /\ thr[t].pc \in {"idle", "block"}
    /\ mgr' = mgr_after_health_check
    /\ thr' = [thr EXCEPT ![t].last = "info", ![t].seen = get_connection_info]
    /\ UNCHANGED <<lock_holder, backend, now, hist>>
    /\ UNCHANGED <<policy_vars, sql_permissions, perm_vars, cls>>

\* one thread using every operation of the manager
NextOps ==
    \/ Call(1)
    \/ \E outcome \in Outcomes : Enter(1, outcome)
    \/ ExitBlock(1)
    \/ RaiseInBlock(1)
    \/ \E closing \in CloseOutcomes : Close(1, closing)
    \/ \E closing \in CloseOutcomes : Refresh(1, closing)
    \/ IsConnectionHealthy(1)
    \/ GetConnectionInfo(1)
    \/ Tick

SpecOps == InitSpecConn /\ [][NextOps]_vars

----------------------------------------------------------------------------
(* The connection manager one statement group at a time: every handler takes   *)
(* the lock, runs its reads and writes in separate steps, and releases the     *)
(* lock, so that steps of different threads interleave wherever the lock lets  *)
(* them. A thread keeps what its current call needs: the connection it was    *)
(* given and the exception on its way to the except clause; what a finished    *)
(* call returned, and hist, are kept by the handlers taken whole only.         *)

\* threading.Lock taken without waiting on its holder
can_acquire_unguarded(t) == TRUE

\* the lock as a threading.RLock: its holder may take it again
can_acquire_reentrant(t) == lock_holder \in {NoThread, t}

\* "with self._connection_lock": the thread gets the lock when no thread holds it
can_acquire(t) == lock_holder = NoThread

\* get_connection enters "with self._connection_lock"
AcquireLock(t) ==
    /\ thr[t].pc = "acquiring"
    /\ can_acquire(t)
    /\ lock_holder' = t
    /\ thr' = [thr EXCEPT ![t].pc = "decide"]
    /\ UNCHANGED <<mgr, backend, now, hist>>
    /\ UNCHANGED <<policy_vars, sql_permissions, perm_vars, cls>>

\* get_connection tests whether a new connection is needed and, if so, closes the one
\* it holds
Decide(t) ==
    LET fresh == needs_new_connection
        closed_old == IF fresh /\ mgr.connection # NoConnection
                      THEN {mgr.connection} ELSE {}
    IN
    /\ thr[t].pc = "decide"
    /\ thr' = [thr EXCEPT ![t].pc = IF fresh THEN "create" ELSE "cursor"]
    /\ backend' = [backend EXCEPT !.live = @ \ closed_old,
                                  !.closes = @ + Cardinality(closed_old)]
    /\ UNCHANGED <<mgr, lock_holder, now, hist>>
    /\ UNCHANGED <<policy_vars, sql_permissions, perm_vars, cls>>

\* _create_connection runs: it returns a connection, or raises ConnectionError into
\* the except clause of get_connection
Create(t, outcome) ==
    LET created == create_connection(outcome)
        made == IF created.opened THEN backend.made + 1 ELSE backend.made
    IN
    /\ thr[t].pc = "create"
    /\ outcome \in {"ok", "connect_fails", "probe_fails"}
    /\ outcome # "ok" => created.attempted
    /\ mgr' = created.mgr
    /\ backend' = [backend EXCEPT
                     !.attempts = @ + (IF created.attempted THEN 1 ELSE 0),
                     !.made = made,
                     !.live = @ \cup (IF created.opened THEN {made} ELSE {})]
    /\ thr' = IF created.raises = NoError
              THEN [thr EXCEPT ![t].pc = "assign", ![t].got = made]
              ELSE [thr EXCEPT ![t].pc = "except", ![t].exc = created.raises]
    /\ UNCHANGED <<lock_holder, now, hist>>
    /\ UNCHANGED <<policy_vars, sql_permissions, perm_vars, cls>>

\* self._connection = the connection _create_connection returned
Assign(t) ==
    /\ thr[t].pc = "assign"
    /\ mgr' = [mgr EXCEPT !.connection = thr[t].got]
    /\ thr' = [thr EXCEPT ![t].pc = "cursor"]
    /\ UNCHANGED <<lock_holder, backend, now, hist>>
    /\ UNCHANGED <<policy_vars, sql_permissions, perm_vars, cls>>

\* the cursor is created and the pair is yielded, or the cursor creation raises
Cursor(t, outcome) ==
    /\ thr[t].pc = "cursor"
    /\ outcome \in {"ok", "cursor_fails"}
    /\ thr' = IF outcome = "ok"
              THEN [thr EXCEPT ![t].pc = "block", ![t].got = mgr.connection]
              ELSE [thr EXCEPT ![t].pc = "except", ![t].exc = CursorFailure]
    /\ UNCHANGED <<mgr, lock_holder, backend, now, hist>>
    /\ UNCHANGED <<policy_vars, sql_permissions, perm_vars, cls>>

\* the caller's scoped block raises: the exception is thrown into the generator at
\* the yield and reaches the except clause of get_connection
Raise(t) ==
    /\ thr[t].pc = "block"
    /\ thr' = [thr EXCEPT ![t].pc = "except", ![t].exc = CallerFailure]
    /\ UNCHANGED <<mgr, lock_holder, backend, now, hist>>
    /\ UNCHANGED <<policy_vars, sql_permissions, perm_vars, cls>>

\* the except clause of get_connection records the exception, re-raises it, and the
\* with statement releases the lock
Except(t) ==
    /\ thr[t].pc = "except"
    /\ mgr' = [mgr EXCEPT !.connection_healthy = FALSE, !.last_error = thr[t].exc]
    /\ lock_holder' = NoThread
    /\ thr' = [thr EXCEPT ![t].pc = "idle", ![t].got = NoConnection,
                          ![t].exc = NoError]
    /\ UNCHANGED <<backend, now, hist>>
    /\ UNCHANGED <<policy_vars, sql_permissions, perm_vars, cls>>

\* the caller's scoped block ends normally: the generator resumes after the yield and
\* the with statement releases the lock
Release(t) ==
    /\ thr[t].pc = "block"
    /\ lock_holder' = NoThread
    /\ thr' = [thr EXCEPT ![t].pc = "idle", ![t].got = NoConnection]
    /\ UNCHANGED <<mgr, backend, now, hist>>
    /\ UNCHANGED <<policy_vars, sql_permissions, perm_vars, cls>>

\* a thread calls close_connection() and waits for the lock
CloseCall(t) ==
    /\ thr[t].pc = "idle"
    /\ thr' = [thr EXCEPT ![t].pc = "closing_wait"]
    /\ UNCHANGED <<mgr, lock_holder, backend, now, hist>>
    /\ UNCHANGED <<policy_vars, sql_permissions, perm_vars, cls>>

\* a thread calls refresh_connection(), which calls close_connection()
RefreshCall(t) ==
    /\ thr[t].pc = "idle"
    /\ thr' = [thr EXCEPT ![t].pc = "closing_wait"]
    /\ UNCHANGED <<mgr, lock_holder, backend, now, hist>>
    /\ UNCHANGED <<policy_vars, sql_permissions, perm_vars, cls>>

\* close_connection with a slip: it does not wait for _connection_lock
close_can_enter_unlocked(t) == TRUE

\* close_connection's "with self._connection_lock"
close_can_enter(t) == can_acquire(t)

\* close_connection enters "with self._connection_lock"
CloseAcquire(t) ==
    /\ thr[t].pc = "closing_wait"
    /\ close_can_enter(t)
    /\ lock_holder' = t
    /\ thr' = [thr EXCEPT ![t].pc = "closing"]
    /\ UNCHANGED <<mgr, backend, now, hist>>
    /\ UNCHANGED <<policy_vars, sql_permissions, perm_vars, cls>>

\* the body of close_connection: the held connection is closed and forgotten, and
\* the lock is released
CloseBody(t) ==
    /\ thr[t].pc = "closing"
    /\ IF mgr.connection # NoConnection
       THEN /\ mgr' = close_connection("closes").mgr
            /\ backend' = [backend EXCEPT !.live = @ \ {mgr.connection},
                                          !.closes = @ + 1]
       ELSE UNCHANGED <<mgr, backend>>
    /\ lock_holder' = NoThread
    /\ thr' = [thr EXCEPT ![t].pc = "idle"]
    /\ UNCHANGED <<now, hist>>
    /\ UNCHANGED <<policy_vars, sql_permissions, perm_vars, cls>>

NextLock ==
    \/ \E t \in Threads : Call(t)
    \/ \E t \in Threads : AcquireLock(t)
    \/ \E t \in Threads : Decide(t)
    \/ \E t \in Threads, outcome \in Outcomes : Create(t, outcome)
    \/ \E t \in Threads : Assign(t)
    \/ \E t \in Threads, outcome \in Outcomes : Cursor(t, outcome)
    \/ \E t \in Threads : Raise(t)
    \/ \E t \in Threads : Except(t)
    \/ \E t \in Threads : Release(t)
    \/ \E t \in Threads : CloseCall(t)
    \/ \E t \in Threads : RefreshCall(t)
    \/ \E t \in Threads : CloseAcquire(t)
    \/ \E t \in Threads : CloseBody(t)
    \/ Tick

SpecLock == InitSpecConn /\ [][NextLock]_vars

\* a caller inside its scoped block calls get_connection() again: it waits for the
\* lock it holds
NestedGet(t) ==
    /\ thr[t].pc = "block"
    /\ thr' = [thr EXCEPT ![t].pc = "acquiring"]
    /\ UNCHANGED <<mgr, lock_holder, backend, now, hist>>
    /\ UNCHANGED <<policy_vars, sql_permissions, perm_vars, cls>>

\* a caller inside its scoped block calls close_connection()
NestedClose(t) ==
    /\ thr[t].pc = "block"
    /\ thr' = [thr EXCEPT ![t].pc = "closing_wait"]
    /\ UNCHANGED <<mgr, lock_holder, backend, now, hist>>
    /\ UNCHANGED <<policy_vars, sql_permissions, perm_vars, cls>>

\* a caller inside its scoped block calls refresh_connection()
NestedRefresh(t) ==
    /\ thr[t].pc = "block"
    /\ thr' = [thr EXCEPT ![t].pc = "closing_wait"]
    /\ UNCHANGED <<mgr, lock_holder, backend, now, hist>>
    /\ UNCHANGED <<policy_vars, sql_permissions, perm_vars, cls>>

\* the steps threads take inside the manager's handlers
HandlerStep ==
    \/ \E t \in Threads : AcquireLock(t)
    \/ \E t \in Threads : Decide(t)
    \/ \E t \in Threads, outcome \in Outcomes : Create(t, outcome)
    \/ \E t \in Threads : Assign(t)
    \/ \E t \in Threads, outcome \in Outcomes : Cursor(t, outcome)
    \/ \E t \in Threads : Raise(t)
    \/ \E t \in Threads : Except(t)
    \/ \E t \in Threads : Release(t)
    \/ \E t \in Threads : CloseAcquire(t)
    \/ \E t \in Threads : CloseBody(t)

\* the handlers with callers that may call the manager from inside a scoped block
NextNest ==
    \/ \E t \in Threads : Call(t)
    \/ \E t \in Threads : AcquireLock(t)
    \/ \E t \in Threads : Decide(t)
    \/ \E t \in Threads, outcome \in Outcomes : Create(t, outcome)
    \/ \E t \in Threads : Assign(t)
    \/ \E t \in Threads, outcome \in Outcomes : Cursor(t, outcome)
    \/ \E t \in Threads : Raise(t)
    \/ \E t \in Threads : Except(t)
    \/ \E t \in Threads : Release(t)
    \/ \E t \in Threads : CloseCall(t)
    \/ \E t \in Threads : RefreshCall(t)
    \/ \E t \in Threads : CloseAcquire(t)
    \/ \E t \in Threads : CloseBody(t)
    \/ \E t \in Threads : NestedGet(t)
    \/ \E t \in Threads : NestedClose(t)
    \/ \E t \in Threads : NestedRefresh(t)
    \/ Tick

SpecNest == InitSpecConn /\ [][NextNest]_vars

----------------------------------------------------------------------------
(* The singleton accessor: SnowflakeConnectionManager.get_instance, one read,  *)
(* write or lock operation at a time. cls.made lists the configurations of the *)
(* managers constructed so far; an instance is its position in that list.      *)

MaxCalls == 2

NoInstance == 0

\* the configurations callers pass
ConfigNames == {"prod", "test"}

\* the test under cls._lock, with a slip: the second 'is None' test is left out
instance_missing_under_lock_unchecked == TRUE

\* the test under cls._lock: if cls._instance is None
instance_missing_under_lock == cls.instance = NoInstance

\* the class as loaded: _instance = None, _lock free
InitInst ==
    /\ cls = [instance |-> NoInstance, lock |-> NoThread, made |-> << >>]
    /\ thr = [t \in Threads |->
                [pc |-> "idle", config |-> "none", got |-> NoInstance,
                 waited |-> FALSE, calls |-> 0]]
    /\ mgr = [connection |-> 0]
    /\ lock_holder = 0
    /\ backend = [attempts |-> 0]
    /\ now = 0
    /\ hist = [backend_failed |-> FALSE]

\* a thread calls get_instance(config)
GetInstance(t, config) ==
    /\ thr[t].pc = "idle"
    /\ thr[t].calls < MaxCalls
    /\ thr' = [thr EXCEPT ![t].pc = "check", ![t].config = config,
                          ![t].got = NoInstance, ![t].waited = FALSE,
                          ![t].calls = @ + 1]
    /\ UNCHANGED cls
    /\ UNCHANGED <<mgr, lock_holder, backend, now, hist>>
    /\ UNCHANGED <<policy_vars, sql_permissions, perm_vars>>

\* if cls._instance is None, outside the lock
FirstCheck(t) ==
    /\ thr[t].pc = "check"
    /\ thr' = [thr EXCEPT ![t].pc = IF cls.instance = NoInstance THEN "lock" ELSE "return"]
    /\ UNCHANGED cls
    /\ UNCHANGED <<mgr, lock_holder, backend, now, hist>>
    /\ UNCHANGED <<policy_vars, sql_permissions, perm_vars>>

\* with cls._lock: the thread waits until the lock is free
TakeClassLock(t) ==
    /\ thr[t].pc = "lock"
    /\ cls.lock = NoThread
    /\ cls' = [cls EXCEPT !.lock = t]
    /\ thr' = [thr EXCEPT ![t].pc = "recheck", ![t].waited = TRUE]
    /\ UNCHANGED <<mgr, lock_holder, backend, now, hist>>
    /\ UNCHANGED <<policy_vars, sql_permissions, perm_vars>>

\* if cls._instance is None, under the lock
SecondCheck(t) ==
    /\ thr[t].pc = "recheck"
    /\ thr' = [thr EXCEPT ![t].pc = IF instance_missing_under_lock
                                     THEN "construct" ELSE "unlock"]
    /\ UNCHANGED cls
    /\ UNCHANGED <<mgr, lock_holder, backend, now, hist>>
    /\ UNCHANGED <<policy_vars, sql_permissions, perm_vars>>

\* cls._instance = cls(config)
Construct(t) ==
    /\ thr[t].pc = "construct"
    /\ cls' = [cls EXCEPT !.made = Append(@, thr[t].config),
                          !.instance = Len(cls.made) + 1]
    /\ thr' = [thr EXCEPT ![t].pc = "unlock"]
    /\ UNCHANGED <<mgr, lock_holder, backend, now, hist>>
    /\ UNCHANGED <<policy_vars, sql_permissions, perm_vars>>

\* the with block ends
ReleaseClassLock(t) ==
    /\ thr[t].pc = "unlock"
    /\ cls' = [cls EXCEPT !.lock = NoThread]
    /\ thr' = [thr EXCEPT ![t].pc = "return"]
    /\ UNCHANGED <<mgr, lock_holder, backend, now, hist>>
    /\ UNCHANGED <<policy_vars, sql_permissions, perm_vars>>

\* return cls._instance
ReturnInstance(t) ==
    /\ thr[t].pc = "return"
    /\ thr' = [thr EXCEPT ![t].pc = "idle", ![t].got = cls.instance]
    /\ UNCHANGED cls
    /\ UNCHANGED <<mgr, lock_holder, backend, now, hist>>
    /\ UNCHANGED <<policy_vars, sql_permissions, perm_vars>>

NextInst ==
    \/ \E t \in Threads, config \in ConfigNames : GetInstance(t, config)
    \/ \E t \in Threads : FirstCheck(t)
    \/ \E t \in Threads : TakeClassLock(t)
    \/ \E t \in Threads : SecondCheck(t)
    \/ \E t \in Threads : Construct(t)
    \/ \E t \in Threads : ReleaseClassLock(t)
    \/ \E t \in Threads : ReturnInstance(t)

InitSpecInst ==
    /\ InitInst
    /\ ParkedPolicy
    /\ ParkedSql
    /\ InitPerm

SpecInst == InitSpecInst /\ [][NextInst]_vars

\* C29: however many threads call get_instance while no instance exists, at most
\* one manager is ever constructed, and every call that has returned, then or
\* later and whatever config it passed, returned that one manager.
C29_OneInstanceForAll ==
    /\ Len(cls.made) <= 1
    /\ \A t \in Threads :
          (thr[t].calls > 0 /\ (thr[t].pc = "idle"))
              => (thr[t].got = 1 /\ cls.instance = 1 /\ Len(cls.made) = 1)

\* C29 witness: two threads passing different configs both found no instance, both
\* went through the lock, and both returned the one manager
C29_Witness ==
    \E t, u \in Threads :
        /\ t # u
        /\ thr[t].pc = "idle" /\ thr[u].pc = "idle"
        /\ thr[t].calls = 1 /\ thr[u].calls = 1
        /\ thr[t].waited /\ thr[u].waited
        /\ thr[t].config # thr[u].config
        /\ thr[t].got = 1 /\ thr[u].got = 1
        /\ Len(cls.made) = 1

----------------------------------------------------------------------------
(* Properties of the connection manager and the execution gate *)

\* check_sql_permission denies the statement for every role name
DeniedForEveryRole(sql) ==
    \A r \in SqlRoleNames : ~check_sql_permission(sql, r).allowed

\* C1: execute_safe_query hands no cursor out for a statement that
\* check_sql_permission denies (here: denies whatever the role).
C1_NoCursorForDeniedStatement ==
    \A t \in Threads :
        (thr[t].pc = "block" /\ thr[t].sql # NoSql) => ~DeniedForEveryRole(thr[t].sql)

\* only get_connection calls have happened, each thread at most one, and the backend
\* has failed no connect, no validation probe and no cursor creation
FirstCallsConnectAndProbeFine ==
    ~hist.backend_failed /\ ~hist.recalled /\ ~hist.closed

OneConnectSharedByAll ==
    /\ backend.attempts <= 1
    /\ \A t \in Threads : thr[t].last # "failed"
    /\ \A t \in Threads : thr[t].last \in {"yielded", "returned", "raised"}
          => (backend.attempts = 1 /\ thr[t].got = 1)

FirstCallsUndisturbed == FirstCallsConnectAndProbeFine /\ ~hist.disturbed

MissingCredential(snowflake) ==
    \/ /\ snowflake.auth_type = "private_key"
       /\ snowflake.private_key = Unset /\ snowflake.private_key_path = Unset
    \/ snowflake.auth_type = "password" /\ snowflake.password = Unset
    \/ snowflake.auth_type = "oauth" /\ snowflake.token = Unset

\* C14: when the selected authentication type lacks its secret, get_connection() fails
\* with ConfigurationError, not ConnectionError, and the backend connect is never
\* called.
C14_ConfigurationErrorAndNoConnect ==
    \A t \in Threads :
        (MissingCredential(mgr.config) /\ thr[t].last = "failed")
            => (thr[t].exc.type = "ConfigurationError" /\ backend.attempts = 0)

\* the exception the backend raised for a failed connect or a failed probe
BackendFailure(outcome) == IF outcome = "connect_fails" THEN ConnectFailure ELSE ProbeFailure

\* C15: a get_connection() in which the backend connect raises or the validation probe
\* fails raises ConnectionError to its caller, leaves last_error holding that error
\* and the healthy flag false, and is_connection_healthy() then answers false with a
\* message that carries the error.
C15_FailedConnectLeavesUnhealthy ==
    [][\A t \in Threads, outcome \in {"connect_fails", "probe_fails"} :
          Enter(t, outcome) =>
              /\ thr'[t].pc = "idle" /\ thr'[t].exc.type = "ConnectionError"
              /\ mgr'.last_error.type = "ConnectionError"
              /\ mgr'.last_error.text =
                    "Failed to connect to Snowflake: " \o BackendFailure(outcome).text
              /\ ~mgr'.connection_healthy
              /\ is_connection_healthy' =
                    <<FALSE, "ConnectionError: Failed to connect to Snowflake: "
                                \o BackendFailure(outcome).text>>]_vars

\* C15 witness: a caller's get_connection() has just failed on the validation probe of
\* a connection the backend had made
C15_Witness ==
    \E t \in Threads :
        /\ thr[t].last = "failed" /\ thr[t].exc.type = "ConnectionError"
        /\ mgr.last_error = ConnectionErrorFrom(ProbeFailure)
        /\ ~mgr.connection_healthy
        /\ backend.made = 1 /\ mgr.connection = NoConnection

\* the manager holds a connection whose last_refresh is older than the interval
HoldsStaleConnection ==
    /\ mgr.connection # NoConnection
    /\ mgr.last_refresh # NoTime
    /\ now - mgr.last_refresh > RefreshInterval

\* a caller is about to go through get_connection(): it waits and the lock is free
AboutToAcquire == lock_holder = NoThread /\ Acquiring # {}

HoldsUsableConnection ==
    /\ mgr.connection # NoConnection
    /\ mgr.connection_healthy
    /\ mgr.last_refresh # NoTime
    /\ now - mgr.last_refresh <= RefreshInterval

\* every acquisition so far succeeded, no block raised, no caller met a stale
\* connection, and close_connection was not called
OnlyCleanAcquisitions == ~hist.backend_failed /\ ~hist.disturbed /\ ~hist.closed

\* C17: with a healthy connection held that is not stale, get_connection() calls no
\* connect and no close and yields that connection object; as long as every
\* acquisition succeeds without an exception and within the refresh interval, one
\* connect has been made whatever the number of acquisitions.
C17_UsableConnectionReused ==
    /\ [][\A t \in Threads, outcome \in Outcomes :
            (HoldsUsableConnection /\ Enter(t, outcome)) =>
                /\ backend' = backend
                /\ mgr'.connection = mgr.connection
                /\ outcome = "ok" =>
                      (thr'[t].pc = "block" /\ thr'[t].got = mgr.connection)]_vars
    /\ [](OnlyCleanAcquisitions =>
            /\ backend.attempts <= 1
            /\ \A t \in Threads :
                  thr[t].last # "none" => (backend.attempts = 1 /\ thr[t].got = 1))

\* C17 witness: after an hour and a second round of acquisitions, a caller is inside
\* its block with connection 1, the only one ever made
C17_Witness ==
    \E t \in Threads :
        /\ OnlyCleanAcquisitions /\ hist.recalled
        /\ \A u \in Threads \ {t} : thr[u].pc = "idle" /\ thr[u].last = "returned"
        /\ thr[t].pc = "block" /\ thr[t].got = 1
        /\ now >= 1 /\ backend.attempts = 1 /\ backend.closes = 0

\* C18: the connections the manager has opened at the backend and not closed are at
\* most one in every reachable state, also after a failed validation probe, a failed
\* cursor creation and the replacement of a stale or unhealthy connection.
C18_AtMostOneLiveConnection == Cardinality(backend.live) <= 1

\* C19: the cursor get_connection() yielded to a caller is closed once the caller's
\* scoped block has been left, normally or by an exception, hence before any later
\* acquisition is handed the connection.
C19_CursorReleasedOnExit ==
    \A t \in Threads : thr[t].pc # "block" => thr[t].cursor # "open"

\* the thread is between taking the connection lock and releasing it
InLockedSection(t) ==
    thr[t].pc \in {"decide", "create", "assign", "cursor", "except", "block", "closing"}

\* C20: every step of get_connection(), close_connection() and refresh_connection()
\* that changes the connection handle, the healthy flag, last_refresh or last_error is
\* taken by the thread that holds the connection lock, and no two threads are between
\* taking and releasing the lock at the same time.
C20_WritesUnderLock ==
    /\ [](\A t \in Threads : InLockedSection(t) => lock_holder = t)
    /\ [][mgr' # mgr =>
            \E t \in Threads :
                /\ lock_holder = t /\ InLockedSection(t)
                /\ thr'[t] # thr[t]
                /\ \A u \in Threads \ {t} : thr'[u] = thr[u]]_vars

\* C20 witness: one thread is closing a held connection inside close_connection() while
\* another waits in get_connection() for the lock
C20_Witness ==
    \E t, u \in Threads :
        /\ thr[t].pc = "closing" /\ mgr.connection # NoConnection /\ lock_holder = t
        /\ thr[u].pc = "acquiring"

----------------------------------------------------------------------------
(* Properties of close, refresh and the health reports, checked under SpecOps *)

\* the manager holds no connection and the last thing the thread did was to ask
\* is_connection_healthy()
AskedWithNoConnection == mgr.connection = NoConnection /\ thr[1].last = "health"

\* C21 as claimed: whenever the manager holds no connection, is_connection_healthy()
\* returns (False, 'No connection established').
C21_AsClaimed ==
    AskedWithNoConnection => thr[1].seen = <<FALSE, "No connection established">>

\* C21, amended: whenever the manager holds no connection, is_connection_healthy()
\* returns False, with 'No connection established' when no error is recorded and
\* with the recorded error ("<type>: <text>") when one is (after a failed connect,
\* or a close that follows a failed call).
C21_NoConnectionReportsRecordedErrorFirst ==
    AskedWithNoConnection =>
        thr[1].seen =
            IF mgr.last_error = NoError THEN <<FALSE, "No connection established">>
            ELSE <<FALSE, mgr.last_error.type \o ": " \o mgr.last_error.text>>

\* C21 witness: the first connect failed, nothing was ever opened, and
\* is_connection_healthy() answered with the recorded ConnectionError
C21_Witness ==
    /\ AskedWithNoConnection
    /\ backend.attempts = 1 /\ backend.made = 0
    /\ mgr.last_error = ConnectionErrorFrom(ConnectFailure)
    /\ thr[1].seen[1] = FALSE /\ thr[1].seen[2] # "No connection established"

\* C22: close_connection() leaves the manager with no connection and healthy = false
\* and raises nothing, also when the underlying close() raises; called with no
\* connection held (a second time, or on an empty manager) it changes nothing.
C22_CloseLeavesEmptyAndSwallows ==
    [][\A closing \in CloseOutcomes :
          Close(1, closing) =>
              /\ mgr'.connection = NoConnection /\ ~mgr'.connection_healthy
              /\ thr'[1].exc = NoError
              /\ mgr.connection = NoConnection => (mgr' = mgr /\ backend' = backend)]_vars

\* C22 witness: the one connection ever opened was held, close_connection() called
\* its close(), which raised, and the manager is empty with nothing raised
C22_Witness ==
    /\ thr[1].last = "closed" /\ thr[1].exc = NoError
    /\ mgr.connection = NoConnection /\ ~mgr.connection_healthy
    /\ mgr.last_refresh # NoTime
    /\ backend.attempts = 1 /\ backend.made = 1
    /\ backend.closes = 1 /\ backend.live = {1}

\* C23: refresh_connection() leaves no connection held, the manager stays without
\* one until a get_connection() runs, and a get_connection() that finds none makes
\* exactly one connect and yields, when it yields, a connection never handed out
\* before; how fresh or healthy the refreshed connection was plays no part.
C23_RefreshForcesNewConnection ==
    /\ [][\A closing \in CloseOutcomes :
             Refresh(1, closing) => mgr'.connection = NoConnection]_vars
    /\ [][(mgr.connection = NoConnection /\ thr[1].pc # "acquiring")
             => mgr'.connection = NoConnection]_vars
    /\ [][\A outcome \in Outcomes :
             (mgr.connection = NoConnection /\ Enter(1, outcome)) =>
                 /\ backend'.attempts = backend.attempts + 1
                 /\ thr'[1].pc = "block" =>
                       /\ backend'.made = backend.made + 1
                       /\ thr'[1].got = backend'.made
                       /\ thr'[1].got \notin 1..backend.made]_vars

\* C23 witness: a healthy connection made this very hour was refreshed away (no close
\* by any other path, no failure, no staleness), and the next get_connection()
\* yielded a second connection from a second connect
C23_Witness ==
    /\ hist.refreshed /\ ~hist.closed /\ ~hist.disturbed /\ ~hist.backend_failed
    /\ now = 0
    /\ backend.closes = 1 /\ backend.attempts = 2 /\ backend.made = 2
    /\ thr[1].pc = "block" /\ thr[1].got = 2 /\ mgr.connection = 2

----------------------------------------------------------------------------
(* One connect per get_connection(), checked under SpecConn *)

\* C24: a get_connection() call makes at most one connect; when the connect fails
\* the call raises to the caller after that one attempt; and a connect happens only
\* in a step of a thread that had called get_connection() and was waiting to enter.
C24_AtMostOneConnectPerCall ==
    /\ [][\A t \in Threads, outcome \in Outcomes :
             Enter(t, outcome) =>
                 /\ backend'.attempts \in {backend.attempts, backend.attempts + 1}
                 /\ outcome = "connect_fails" =>
                       /\ backend'.attempts = backend.attempts + 1
                       /\ thr'[t].pc = "idle"
                       /\ thr'[t].exc = ConnectionErrorFrom(ConnectFailure)]_vars
    /\ [][backend'.attempts # backend.attempts =>
             \E t \in Threads : thr[t].pc = "acquiring" /\ thr'[t].pc # "acquiring"]_vars

\* C24 witness: a call's one connect failed, the call raised, and a second call by
\* the same thread made the second connect
C24_Witness ==
    /\ hist.backend_failed /\ hist.recalled
    /\ backend.attempts = 2 /\ backend.made = 1
    /\ \E t \in Threads : thr[t].pc = "block" /\ thr[t].got = 1
    /\ \A t \in Threads : thr[t].last \in {"none", "yielded"}

----------------------------------------------------------------------------
(* Failures and recovery of the manager, checked under SpecConn *)

\* a connection is held and the last thing recorded is a caller's exception
HeldAfterCallerFailure ==
    mgr.connection # NoConnection /\ mgr.last_error = CallerFailure

\* C31: an exception raised by the caller inside its scoped block is recorded as
\* last_error with healthy = false and re-raised, the connection staying held; the
\* next get_connection() then closes that connection once and makes one connect,
\* and yields the new connection when connect, probe and cursor succeed.
C31_CallerExceptionForcesReplacement ==
    /\ [][\A t \in Threads :
             RaiseInBlock(t) =>
                 /\ mgr'.last_error = CallerFailure /\ ~mgr'.connection_healthy
                 /\ mgr'.connection = mgr.connection
                 /\ thr'[t].exc = CallerFailure]_vars
    /\ [][\A t \in Threads, outcome \in Outcomes :
             (HeldAfterCallerFailure /\ Enter(t, outcome)) =>
                 /\ backend'.closes = backend.closes + 1
                 /\ mgr.connection \notin backend'.live
                 /\ backend'.attempts = backend.attempts + 1
                 /\ outcome = "ok" =>
                       /\ thr'[t].pc = "block"
                       /\ thr'[t].got = backend'.made
                       /\ thr'[t].got # mgr.connection]_vars

\* C31 witness: nothing failed at the backend, nothing went stale or was closed by
\* hand, a caller's block raised, and the next caller is inside its block with a
\* second connection
C31_Witness ==
    \E t \in Threads :
        /\ hist.disturbed /\ ~hist.backend_failed /\ ~hist.closed /\ now = 0
        /\ backend.closes = 1 /\ backend.attempts = 2 /\ backend.made = 2
        /\ thr[t].pc = "block" /\ thr[t].got = 2
        /\ mgr.connection_healthy /\ mgr.last_error = NoError

\* C38 as claimed: after a get_connection() that raised, the next get_connection()
\* makes a new connect attempt, and when connect and probe succeed it yields a
\* connection with healthy = true, last_error cleared and last_refresh updated.
C38_AsClaimed ==
    [][\A outcome \in Outcomes :
          (thr[1].last = "failed" /\ Enter(1, outcome)) =>
              /\ backend'.attempts = backend.attempts + 1
              /\ outcome = "ok" =>
                    /\ thr'[1].pc = "block" /\ thr'[1].got = backend'.made
                    /\ mgr'.connection = backend'.made
                    /\ mgr'.connection_healthy /\ mgr'.last_error = NoError
                    /\ mgr'.last_refresh = now]_vars

\* C38, amended: that holds after a connect failure, a probe failure or a cursor
\* failure; when the configuration lacks the credential of its authentication
\* type, the next get_connection() builds the parameters again, raises again and
\* calls no connect, the manager staying unhealthy.
C38_FailedAcquisitionNotSticky ==
    [][\A outcome \in Outcomes :
          (thr[1].last = "failed" /\ Enter(1, outcome)) =>
              IF MissingCredential(mgr.config)
              THEN /\ backend'.attempts = backend.attempts
                   /\ thr'[1].pc = "idle" /\ thr'[1].last = "failed"
                   /\ thr'[1].exc # NoError
                   /\ ~mgr'.connection_healthy /\ mgr'.last_error # NoError
              ELSE /\ backend'.attempts = backend.attempts + 1
                   /\ outcome = "ok" =>
                         /\ thr'[1].pc = "block" /\ thr'[1].got = backend'.made
                         /\ mgr'.connection = backend'.made
                         /\ mgr'.connection_healthy /\ mgr'.last_error = NoError
                         /\ mgr'.last_refresh = now]_vars

\* C38 witness: the first get_connection() failed at connect, an hour later the
\* second one connected, and the caller is inside its block on a healthy manager
C38_Witness ==
    /\ ~MissingCredential(mgr.config)
    /\ hist.backend_failed /\ hist.recalled /\ ~hist.closed /\ ~hist.disturbed
    /\ backend.attempts = 2 /\ backend.made = 1 /\ backend.closes = 0
    /\ thr[1].pc = "block" /\ thr[1].got = 1
    /\ mgr.connection_healthy /\ mgr.last_error = NoError
    /\ now = 1 /\ mgr.last_refresh = 1

----------------------------------------------------------------------------
(* The lock and the fields it guards, checked under SpecLock and SpecNest *)

\* the thread waits for the connection lock
WaitsForLock(t) == thr[t].pc \in {"acquiring", "closing_wait"}

\* the thread waits for the connection lock while holding it
Nested(t) == lock_holder = t /\ WaitsForLock(t)

\* C35: while a caller is inside its scoped block it holds the lock, the connection
\* it was handed is the one the manager holds and is open, and no step of another
\* thread closes a connection or changes the manager's connection: other
\* get_connection(), close_connection() and refresh_connection() calls wait.
C35_BorrowedConnectionNeverClosed ==
    /\ [](\A t \in Threads :
            thr[t].pc = "block" =>
                /\ lock_holder = t
                /\ thr[t].got = mgr.connection
                /\ thr[t].got \in backend.live)
    /\ [][\A t \in Threads :
             (thr[t].pc = "block" /\ thr'[t].pc = "block") =>
                 /\ mgr'.connection = mgr.connection
                 /\ backend'.closes = backend.closes
                 /\ \A u \in Threads \ {t} :
                       WaitsForLock(u) => thr'[u] = thr[u]]_vars

\* C35 witness: one caller is inside its block with the held connection while a
\* second thread waits in close_connection()
C35_Witness ==
    \E t, u \in Threads :
        /\ thr[t].pc = "block" /\ thr[t].got = 1 /\ mgr.connection = 1
        /\ thr[u].pc = "closing_wait"

\* C36: a thread that calls get_connection(), close_connection() or
\* refresh_connection() from inside its own scoped block waits for the lock it holds
\* and never leaves that wait, the lock staying held; as long as no thread has done
\* so, a waiting thread never faces a state in which no handler step can be taken.
C36_NestedCallDeadlocks ==
    /\ [][\A t \in Threads :
             Nested(t) => (thr'[t] = thr[t] /\ lock_holder' = t)]_vars
    /\ []((\A t \in Threads : ~Nested(t))
            => ((\E t \in Threads : WaitsForLock(t)) => ENABLED HandlerStep))

\* C36 witness: a caller inside its block called close_connection(), the other
\* thread waits in get_connection(), and no handler step can be taken
C36_Witness ==
    \E t, u \in Threads :
        /\ t # u
        /\ Nested(t) /\ thr[t].pc = "closing_wait"
        /\ thr[u].pc = "acquiring"
        /\ ~ENABLED HandlerStep

\* C37: whenever the connection lock is free, healthy = true comes with a held
\* connection, no recorded error and a recorded refresh time; healthy turns true
\* only in a step that made one connect and opened a connection; and every step that
\* records an error leaves healthy = false.
C37_HealthyMeansConnected ==
    /\ []((lock_holder = NoThread /\ mgr.connection_healthy) =>
            /\ mgr.connection # NoConnection
            /\ mgr.last_error = NoError
            /\ mgr.last_refresh # NoTime)
    /\ [][(~mgr.connection_healthy /\ mgr'.connection_healthy) =>
             /\ backend'.attempts = backend.attempts + 1
             /\ backend'.made = backend.made + 1
             /\ mgr'.last_error = NoError /\ mgr'.last_refresh = now]_vars
    /\ [][(mgr'.last_error # mgr.last_error /\ mgr'.last_error # NoError)
             => ~mgr'.connection_healthy]_vars

\* C37 witness: the lock is free and the manager is healthy again after a failure
\* and a close
C37_Witness ==
    /\ lock_holder = NoThread /\ mgr.connection_healthy
    /\ mgr.connection = 2 /\ backend.closes >= 1 /\ backend.attempts = 2

----------------------------------------------------------------------------
(* Role independence of allowed statements, checked under SpecSql *)

\* the statement starts with an allowed entry and with no disallowed or
\* administrative entry
PlainAllowedStatement ==
    /\ SqlChecked
    /\ MatchesList(call.sql, sql_permissions.allowed)
    /\ ~MatchesList(call.sql, sql_permissions.disallowed)
    /\ ~MatchesList(call.sql, sql_permissions.administrative_allowed)

\* C39: for a statement starting with an allowed entry and with no disallowed or
\* administrative entry, check_sql_permission allows, and its decision is the same
\* for every role name: roles missing from the role table and roles with no
\* operations included.
C39_AllowedPrefixIgnoresRole ==
    PlainAllowedStatement =>
        /\ result.allowed
        /\ \A r \in SqlRoleNames : check_sql_permission(call.sql, r) = result

\* C39 witness: such a statement was allowed for a role the role table does not
\* hold, and the table also holds a role with no operations
C39_Witness ==
    /\ PlainAllowedStatement /\ result.allowed
    /\ call.role \notin DOMAIN roles
    /\ \E r \in DOMAIN roles : roles[r].allowed_operations = << >>

----------------------------------------------------------------------------
(* SpecEngine: the three decision methods of PermissionManager side by side.
   A run is one of: the tool-permission engine with its changing policy (Spec),
   one check_sql_permission call (SpecSql), one validate_operation_context call
   (SpecCtx). *)

InitEngine == Init \/ InitSql \/ InitCtx

\* the run is the tool-permission engine's
ToolEngine == call.op \in {"init", "check_tool", "clear", "policy"}

NextEngine ==
    \/ \E t \in ToolNames, r \in RoleNames : ToolEngine /\ CheckTool(t, r)
    \/ ToolEngine /\ ClearCache
    \/ \E b \in BOOLEAN : ToolEngine /\ SetSafeMode(b)
    \/ \E cfg \in ServiceChoices : ToolEngine /\ SetService("discovery", cfg)
    \/ \E rc \in RoleChoices : ToolEngine /\ SetRole("analyst", rc)
    \/ ToolEngine /\ RemoveRole("analyst")
    \/ \E tp \in ToolPermissionChoices :
            ToolEngine /\ SetToolPermission("drop_database", tp)
    \/ ToolEngine /\ RemoveToolPermission("drop_database")
    \/ CheckSql
    \/ ValidateContext

SpecEngine == InitEngine /\ [][NextEngine]_vars

\* one of the three methods has returned the recorded decision
Decided == call.op \in {"check_tool", "check_sql", "validate_context"}

\* C40: every decision returned by check_tool_permission, check_sql_permission or
\* validate_operation_context that allows has requires_confirmation = false and
\* requires_approval = false (a flag is set on denials only), and no decision has
\* both flags set.
C40_FlagsOnlyOnDenials ==
    Decided =>
        /\ result.allowed => (~result.requires_confirmation /\ ~result.requires_approval)
        /\ ~(result.requires_confirmation /\ result.requires_approval)

\* C40 witness: check_tool_permission denied with the confirmation flag alone for a
\* tool whose policy entry asks for confirmation and for approval
C40_Witness ==
    /\ call.op = "check_tool"
    /\ ~result.allowed
    /\ result.requires_confirmation /\ ~result.requires_approval
    /\ call.tool \in DOMAIN tool_permissions
    /\ tool_permissions[call.tool].requires_confirmation
    /\ tool_permissions[call.tool].requires_approval

----------------------------------------------------------------------------
(* SpecFixed: check_tool_permission and clear_permission_cache over policy tables
   and a safe-mode flag that are set once and then left alone *)

\* the role tables of a run: no role, or the analyst with one of its values
FixedRoleTables ==
    {EmptyDict} \cup {[r \in {"analyst"} |-> rc] : rc \in RoleChoices}

\* the tool-policy tables of a run: no entry, or one for drop_database
FixedToolPermissionTables ==
    {EmptyDict} \cup {[t \in {"drop_database"} |-> tp] : tp \in ToolPermissionChoices}

InitFixed ==
    /\ safe_mode \in BOOLEAN
    /\ services \in {[s \in ServiceNames |->
                        IF s = "discovery" THEN cfg ELSE DefaultServiceConfig] :
                     cfg \in ServiceChoices}
    /\ roles \in FixedRoleTables
    /\ tool_permissions \in FixedToolPermissionTables
    /\ InitPerm
    /\ ParkedSql
    /\ ParkedConn

NextFixed ==
    \/ \E t \in ToolNames, r \in RoleNames : CheckTool(t, r)
    \/ ClearCache

SpecFixed == InitFixed /\ [][NextFixed]_vars

\* the decision an engine without a cache gives: the evaluation of lines 78-117
Uncached(tool_name, user_role) == evaluate_tool_permission(tool_name, user_role).result

\* C34: with the policy tables and the safe-mode flag unchanged, every
\* check_tool_permission call in a sequence of check_tool_permission and
\* clear_permission_cache calls, over tool and role names without ':', returns the
\* allowed, requires_confirmation and requires_approval values that evaluating the
\* call from scratch, without a cache, returns.
C34_CacheTransparent ==
    call.op = "check_tool" =>
        /\ result.allowed = Uncached(call.tool, call.role).allowed
        /\ result.requires_confirmation =
               Uncached(call.tool, call.role).requires_confirmation
        /\ result.requires_approval = Uncached(call.tool, call.role).requires_approval

\* C34 witness: a call answered from the cache, after a clear that dropped an entry
\* not asked for since, under a policy that denies another pair
C34_Witness ==
    /\ call.op = "check_tool" /\ ~call.fresh /\ result.allowed
    /\ cleared_pairs # {}
    /\ \E q \in Pairs : ~Uncached(q[1], q[2]).allowed

----------------------------------------------------------------------------
(* SpecKeys: the same calls over tool and role names that contain ':' *)

KeyToolNames == {"query", "query:admin"}
KeyRoleNames == {"admin:ops", "ops"}

\* the role tables of a run: each role holds one tool or none
KeyRoleTables ==
    {[r \in KeyRoleNames |-> [allowed_tools |-> at[r], allowed_operations |-> <<"READ">>]] :
        at \in [KeyRoleNames -> {<< >>, <<"query">>, <<"query:admin">>}]}

InitKeys ==
    /\ safe_mode \in BOOLEAN
    /\ services \in {[s \in ServiceNames |->
                        IF s = "discovery" THEN [enabled |-> TRUE, tools |-> ts]
                        ELSE DefaultServiceConfig] :
                     ts \in {<<"query">>, <<"query", "query:admin">>}}
    /\ roles \in KeyRoleTables
    /\ tool_permissions = EmptyDict
    /\ InitPerm
    /\ ParkedSql
    /\ ParkedConn

NextKeys ==
    \/ \E t \in KeyToolNames, r \in KeyRoleNames : CheckTool(t, r)
    \/ ClearCache

SpecKeys == InitKeys /\ [][NextKeys]_vars

\* C33: two distinct (tool name, role name) pairs never share a cache entry: a call
\* is answered from the cache only when a fresh evaluation of the same pair allowed
\* it since the last clear, for all tool and role names.
C33_PairsNeverShareEntry ==
    (call.op = "check_tool" /\ ~call.fresh) => <<call.tool, call.role>> \in fresh_allowed

----------------------------------------------------------------------------
(* SpecRace: check_tool_permission one statement group at a time, in threads that
   run beside a reloader that assigns the role table and then calls
   clear_permission_cache. Neither method takes a lock.
   thr[t]: pc, the call's arguments and what the call has read so far.
   hist:   epoch (reloads so far), cleared_for (the epoch of the last clear),
           reloader (its position) and origin (for each cache key, the epoch whose
           tables allowed it). *)

MaxReloads == 1

IdleCall ==
    [pc |-> "idle", tool |-> "", role |-> "", allowed |-> FALSE, from_cache |-> FALSE,
     clean_start |-> FALSE, start_epoch |-> 0, origin |-> 0, eval_epoch |-> 0]

InitRace ==
    /\ safe_mode = TRUE
    /\ services = [s \in ServiceNames |->
                     IF s = "discovery"
                     THEN [enabled |-> TRUE, tools |-> <<"list_databases", "drop_database">>]
                     ELSE DefaultServiceConfig]
    /\ roles = [r \in {"analyst"} |->
                  [allowed_tools |-> <<"list_databases">>, allowed_operations |-> <<"READ">>]]
    /\ tool_permissions = EmptyDict
    /\ InitPerm
    /\ ParkedSql
    /\ mgr = [connection |-> 0]
    /\ lock_holder = 0
    /\ backend = [attempts |-> 0]
    /\ now = 0
    /\ cls = [instance |-> 0]
    /\ thr = [t \in Threads |-> IdleCall]
    /\ hist = [epoch |-> 0, cleared_for |-> 0, reloader |-> "idle", origin |-> EmptyDict]

RaceFrame ==
    UNCHANGED <<safe_mode, services, tool_permissions, sql_permissions, call, result,
                granted, fresh_allowed, cleared_pairs, mgr, lock_holder, backend, now, cls>>

\* lines 69-76: thread t enters check_tool_permission(tool_name, user_role), reads
\* the cache and returns on a hit
Lookup(t, tool_name, user_role) ==
    /\ thr[t].pc \in {"idle", "done"}
    /\ thr' = [thr EXCEPT ![t] =
           [IdleCall EXCEPT
              !.pc = IF cache_hit(tool_name, user_role) THEN "done" ELSE "evaluating",
              !.tool = tool_name, !.role = user_role,
              !.allowed = cache_hit(tool_name, user_role),
              !.from_cache = cache_hit(tool_name, user_role),
              !.clean_start = (hist.cleared_for = hist.epoch),
              !.start_epoch = hist.epoch,
              !.origin = IF cache_hit(tool_name, user_role)
                         THEN hist.origin[cache_key(tool_name, user_role)] ELSE 0]]
    /\ UNCHANGED <<roles, permission_cache, hist>>
    /\ RaceFrame

\* lines 78-108: the enabled, role and safety checks over the tables as they are now
Evaluate(t) ==
    /\ thr[t].pc = "evaluating"
    /\ LET r == evaluate_tool_permission(thr[t].tool, thr[t].role).result IN
       thr' = [thr EXCEPT ![t].pc = IF r.allowed THEN "writing" ELSE "done",
                          ![t].allowed = r.allowed,
                          ![t].eval_epoch = hist.epoch]
    /\ UNCHANGED <<roles, permission_cache, hist>>
    /\ RaceFrame

\* lines 111-117: self._permission_cache[cache_key] = True, and the allowed result
WriteCache(t) ==
    /\ thr[t].pc = "writing"
    /\ permission_cache' =
           DictSet(permission_cache, cache_key(thr[t].tool, thr[t].role), TRUE)
    /\ hist' = [hist EXCEPT !.origin =
                   DictSet(hist.origin, cache_key(thr[t].tool, thr[t].role),
                           thr[t].eval_epoch)]
    /\ thr' = [thr EXCEPT ![t].pc = "done"]
    /\ UNCHANGED roles
    /\ RaceFrame

\* the reloader assigns a new role table
Reload(rc) ==
    /\ hist.reloader = "idle"
    /\ hist.epoch < MaxReloads
    /\ rc # roles["analyst"]
    /\ roles' = DictSet(roles, "analyst", rc)
    /\ hist' = [hist EXCEPT !.epoch = hist.epoch + 1, !.reloader = "clearing"]
    /\ UNCHANGED <<permission_cache, thr>>
    /\ RaceFrame

\* the reloader calls clear_permission_cache()
ClearAfterReload ==
    /\ hist.reloader = "clearing"
    /\ permission_cache' = clear_permission_cache
    /\ hist' = [hist EXCEPT !.cleared_for = hist.epoch, !.reloader = "idle",
                            !.origin = EmptyDict]
    /\ UNCHANGED <<roles, thr>>
    /\ RaceFrame

NextRace ==
    \/ \E t \in Threads, tool_name \in ToolNames, user_role \in RoleNames :
            Lookup(t, tool_name, user_role)
    \/ \E t \in Threads : Evaluate(t)
    \/ \E t \in Threads : WriteCache(t)
    \/ \E rc \in RoleChoices : Reload(rc)
    \/ ClearAfterReload

SpecRace == InitRace /\ [][NextRace]_vars

\* C32: a check_tool_permission call that starts after a reload and the
\* clear_permission_cache() that follows it is not answered from a cache entry that
\* was computed under the tables of before the reload, calls in flight during the
\* reload and the clear included.
C32_NoStaleHitAfterReloadAndClear ==
    \A t \in Threads :
        (thr[t].pc = "done" /\ thr[t].from_cache /\ thr[t].clean_start)
            => thr[t].origin >= thr[t].start_epoch

====
